---------------------------- MODULE Spec2Model ----------------------------
(***************************************************************************)
(* Route matching and reflective dispatch of web.go (server.go, web.go,    *)
(* scgi.go): the route table, the matcher, the argument binder, the safe   *)
(* invoker and the response coercer, as a state machine.                   *)
(***************************************************************************)
EXTENDS Naturals, Sequences, FiniteSets, TLC

VARIABLES
    routes,     \* Server.routes: the route table, in registration order
    Config,     \* Server.Config (RecoverPanic)
    regexLog,   \* the patterns of the "Error in route regex" lines logged
    disp        \* per dispatch (one routeHandler call in flight): its locals

vars == <<routes, Config, regexLog, disp>>

(***************************************************************************)
(* Bounds of the model.                                                    *)
(***************************************************************************)
MaxRoutes == 2

(***************************************************************************)
(* Strings are sequences of characters; []byte(s) is their UTF-8 encoding. *)
(***************************************************************************)
Utf8Table ==
    [c \in {"/", "a", "b", "x", "h", "S", "e", "r", "v", " ", "E", "o",
            "P", "g", "n", "t", "f", "u", "d", "N"} |->
        CASE c = "/" -> <<47>>  [] c = "a" -> <<97>>  [] c = "b" -> <<98>>
          [] c = "x" -> <<120>> [] c = "h" -> <<104>> [] c = "S" -> <<83>>
          [] c = "e" -> <<101>> [] c = "r" -> <<114>> [] c = "v" -> <<118>>
          [] c = " " -> <<32>>  [] c = "E" -> <<69>>  [] c = "o" -> <<111>>
          [] c = "P" -> <<80>>  [] c = "g" -> <<103>> [] c = "n" -> <<110>>
          [] c = "t" -> <<116>> [] c = "f" -> <<102>> [] c = "u" -> <<117>>
          [] c = "d" -> <<100>> [] c = "N" -> <<78>>]
    @@ ("é" :> <<195, 169>>)

RECURSIVE Bytes(_)
\* []byte(s): the UTF-8 bytes of the text s
Bytes(s) == IF s = <<>> THEN <<>> ELSE Utf8Table[Head(s)] \o Bytes(Tail(s))

\* len(s) of a Go string: its length in bytes
ByteLen(s) == Len(Bytes(s))

Digit == <<"0", "1", "2", "3", "4", "5", "6", "7", "8", "9">>

RECURSIVE Itoa(_)
\* strconv.Itoa for n >= 0: the decimal digits, most significant first
Itoa(n) == IF n < 10 THEN <<Digit[n + 1]>>
           ELSE Itoa(n \div 10) \o <<Digit[(n % 10) + 1]>>

(***************************************************************************)
(* regexp: a compiled pattern is a table of nodes, node 1 the root.        *)
(* FindStringSubmatch is leftmost-first: the leftmost start at which the   *)
(* pattern matches, and there the match a backtracking search finds first  *)
(* (alternatives left to right, * and + greedy).                           *)
(***************************************************************************)
Nd(op, c, l, r, g) == [op |-> op, c |-> c, l |-> l, r |-> r, g |-> g]
Lit(c) == Nd("lit", c, 0, 0, 0)
AnyChar == Nd("any", "", 0, 0, 0)
Cat(l, r) == Nd("cat", "", l, r, 0)
Alt(l, r) == Nd("alt", "", l, r, 0)
Star(l) == Nd("star", "", l, 0, 0)
Plus(l) == Nd("plus", "", l, 0, 0)
Group(g, l) == Nd("group", "", l, 0, g)

Compiled ==
    \*  "/(.*)"
       ("/(.*)" :> [n |-> 1, nodes |->
            <<Cat(2, 3), Lit("/"), Group(1, 4), Star(5), AnyChar>>])
    \*  "/a"
    @@ ("/a" :> [n |-> 0, nodes |-> <<Cat(2, 3), Lit("/"), Lit("a")>>])
    \*  "/(.)(.+)"
    @@ ("/(.)(.+)" :> [n |-> 2, nodes |->
            <<Cat(2, 3), Lit("/"), Cat(4, 5), Group(1, 6), Group(2, 7),
              AnyChar, Plus(8), AnyChar>>])
    \*  "/a|/ab"
    @@ ("/a|/ab" :> [n |-> 0, nodes |->
            <<Alt(2, 5), Cat(3, 4), Lit("/"), Lit("a"),
              Cat(6, 7), Lit("/"), Cat(8, 9), Lit("a"), Lit("b")>>])

\* regexp.Compile(r): an error for a pattern that is no regular expression
\* ("(" lacks its closing parenthesis), the compiled pattern otherwise
Compile(r) ==
    IF r \in DOMAIN Compiled
    THEN [err |-> FALSE, cr |-> Compiled[r]]
    ELSE [err |-> TRUE, cr |-> [n |-> 0, nodes |-> <<>>]]

NoCaps(cr) == [g \in 1..cr.n |-> <<0, 0>>]

RECURSIVE Run(_, _, _, _, _), RunEach(_, _, _, _), RunLoop(_, _, _, _, _)

\* every way node k of cr matches s from position i, in the order a
\* backtracking search tries them: a sequence of [e: the position after the
\* match, caps: the capture groups' <<start, end>> so far]
Run(cr, k, s, i, caps) ==
    LET nd == cr.nodes[k] IN
    CASE nd.op = "lit" ->
            IF i <= Len(s) /\ s[i] = nd.c
            THEN <<[e |-> i + 1, caps |-> caps]>> ELSE <<>>
      [] nd.op = "any" ->
            IF i <= Len(s) THEN <<[e |-> i + 1, caps |-> caps]>> ELSE <<>>
      [] nd.op = "cat" -> RunEach(cr, nd.r, s, Run(cr, nd.l, s, i, caps))
      [] nd.op = "alt" -> Run(cr, nd.l, s, i, caps) \o Run(cr, nd.r, s, i, caps)
      [] nd.op = "star" ->
            RunLoop(cr, k, s, i, Run(cr, nd.l, s, i, caps))
                \o <<[e |-> i, caps |-> caps]>>
      [] nd.op = "plus" ->
            RunLoop(cr, k, s, i, Run(cr, nd.l, s, i, caps))
      [] nd.op = "group" ->
            LET inner == Run(cr, nd.l, s, i, caps) IN
            [j \in 1..Len(inner) |->
                [e |-> inner[j].e,
                 caps |-> [inner[j].caps EXCEPT ![nd.g] = <<i, inner[j].e>>]]]

\* node k after each of the matches rs of the node before it
RunEach(cr, k, s, rs) ==
    IF rs = <<>> THEN <<>>
    ELSE Run(cr, k, s, Head(rs).e, Head(rs).caps) \o RunEach(cr, k, s, Tail(rs))

\* a greedy repetition k after each first iteration rs: one more round
\* first (an iteration that consumed nothing is not repeated), then stop
RunLoop(cr, k, s, i, rs) ==
    IF rs = <<>> THEN <<>>
    ELSE (IF Head(rs).e > i
          THEN RunLoop(cr, k, s, Head(rs).e,
                       Run(cr, cr.nodes[k].l, s, Head(rs).e, Head(rs).caps))
                   \o <<Head(rs)>>
          ELSE <<Head(rs)>>)
         \o RunLoop(cr, k, s, i, Tail(rs))

MatchesAt(cr, s, i) == Run(cr, 1, s, i, NoCaps(cr))

RECURSIVE LeftmostFrom(_, _, _)
\* the leftmost start position >= i at which cr matches s, 0 when none
LeftmostFrom(cr, s, i) ==
    IF i > Len(s) + 1 THEN 0
    ELSE IF MatchesAt(cr, s, i) # <<>> THEN i
    ELSE LeftmostFrom(cr, s, i + 1)

LeftmostStart(cr, s) == LeftmostFrom(cr, s, 1)

\* Regexp.MatchString: does cr match anywhere in s
MatchString(cr, s) == LeftmostStart(cr, s) # 0

Slice(s, from, to) == [j \in 1..(to - from) |-> s[from + j - 1]]

\* Regexp.FindStringSubmatch: <<the text of the leftmost-first match, the
\* text of each capture group>>; an unset group is the empty string
FindStringSubmatch(cr, s) ==
    LET i == LeftmostStart(cr, s)
        m == Head(MatchesAt(cr, s, i))
    IN  <<Slice(s, i, m.e)>>
            \o [g \in 1..cr.n |-> Slice(s, m.caps[g][1], m.caps[g][2])]

(***************************************************************************)
(* Values that cross the reflective call boundary (reflect.Value).         *)
(***************************************************************************)
StrVal(s) == [kind |-> "string", s |-> s, b |-> <<>>, ref |-> ""]
BytesVal(b) == [kind |-> "bytes", s |-> <<>>, b |-> b, ref |-> ""]
\* a value of a declared type whose underlying type is []byte
NamedBytesVal(b) == [kind |-> "namedbytes", s |-> <<>>, b |-> b, ref |-> ""]
\* a value of kind int
IntVal == [kind |-> "int", s |-> <<>>, b |-> <<>>, ref |-> ""]
\* a nil pointer
NilPtrVal == [kind |-> "ptr", s |-> <<>>, b |-> <<>>, ref |-> ""]
\* reflect.ValueOf(&ctx): a pointer to the Context of dispatch d
CtxRef(d) == [kind |-> "ptr", s |-> <<>>, b |-> <<>>, ref |-> d]

(***************************************************************************)
(* Handler functions the application registers, by their declared          *)
(* parameter types (reflect.Type): In(k), NumIn, IsVariadic.               *)
(***************************************************************************)
Ty(kind, elem) == [kind |-> kind, elem |-> elem]
contextType == "web.Context"

HandlerTypes ==
    \* func(args ...string) string
       ("hPlain" :> [in |-> <<Ty("slice", "string")>>, variadic |-> TRUE])
    \* func(ctx *web.Context, args ...string) string
    @@ ("hCtx" :> [in |-> <<Ty("ptr", contextType), Ty("slice", "string")>>,
                   variadic |-> TRUE])
    \* func() string
    @@ ("hNone" :> [in |-> <<>>, variadic |-> FALSE])
    \* func(ctx web.Context) string
    @@ ("hVal" :> [in |-> <<Ty("struct", contextType)>>, variadic |-> FALSE])
    \* func(req *http.Request) string
    @@ ("hPtrOther" :> [in |-> <<Ty("ptr", "http.Request")>>,
                        variadic |-> FALSE])
    \* func(v interface{}) string
    @@ ("hIface" :> [in |-> <<Ty("interface", "")>>, variadic |-> FALSE])
    \* func(n int) string
    @@ ("hIntArg" :> [in |-> <<Ty("int", "")>>, variadic |-> FALSE])
    \* func(ctx *web.Context) string, which sets its own Content-Type
    @@ ("hSetType" :> [in |-> <<Ty("ptr", contextType)>>, variadic |-> FALSE])
    \* func() []byte
    @@ ("hRetBytes" :> [in |-> <<>>, variadic |-> FALSE])
    \* func() Blob, with type Blob []byte
    @@ ("hRetNamed" :> [in |-> <<>>, variadic |-> FALSE])
    \* func() int
    @@ ("hRetInt" :> [in |-> <<>>, variadic |-> FALSE])
    \* func() *http.Request
    @@ ("hRetNil" :> [in |-> <<>>, variadic |-> FALSE])
    \* func() (int, string)
    @@ ("hRetTwo" :> [in |-> <<>>, variadic |-> FALSE])
    \* values that are no functions and have no parameter list: the zero
    \* Value reflect.ValueOf(nil), and reflect.ValueOf("s")
    @@ ("vNil" :> [in |-> <<>>, variadic |-> FALSE])
    @@ ("vString" :> [in |-> <<>>, variadic |-> FALSE])

\* reflect.Value.Kind() of a stored handler value
HandlerKind(handler) ==
    IF handler = "vNil" THEN "invalid"
    ELSE IF handler = "vString" THEN "string"
    ELSE "func"

\* route.handler.Type() panics on the zero Value, and NumIn() in
\* requiresContext panics on a type that is not a function type
TypePanics(handler) == HandlerKind(handler) # "func"

\* the two handlers of the application whose registrations are followed
Handlers == {"hPlain", "hCtx"}

\* a requiresContext that is content with any pointer
requiresContextAnyPointer(handlerType) ==
    IF Len(handlerType.in) = 0 THEN FALSE
    ELSE LET a0 == handlerType.in[1] IN
         IF a0.kind # "ptr" THEN FALSE
         ELSE TRUE

\* requiresContext(handlerType): is the first declared parameter *web.Context
requiresContext(handlerType) ==
    IF Len(handlerType.in) = 0 THEN FALSE
    ELSE LET a0 == handlerType.in[1] IN
         IF a0.kind # "ptr" THEN FALSE
         ELSE IF a0.elem = contextType THEN TRUE
         ELSE FALSE

\* a call check that counts the arguments and does not look at their types
CallFitsCountOnly(ht, args) ==
    LET n == Len(ht.in) IN
    IF ht.variadic THEN Len(args) >= n - 1 ELSE Len(args) = n

\* is the value v assignable to a parameter of type t
Assignable(v, t) ==
    \/ v.kind = "string" /\ t = Ty("string", "")
    \/ v.kind = "ptr" /\ t = Ty("ptr", contextType)
    \/ t = Ty("interface", "")

\* reflect.Value.Call accepts args for a function of type ht: the counts
\* agree (a variadic function takes any number of trailing arguments of its
\* last parameter's element type) and every argument is assignable
CallFits(ht, args) ==
    LET n == Len(ht.in) IN
    IF ht.variadic
    THEN /\ Len(args) >= n - 1
         /\ \A k \in 1..Len(args) :
                IF k < n THEN Assignable(args[k], ht.in[k])
                ELSE Assignable(args[k], Ty(ht.in[n].elem, ""))
    ELSE /\ Len(args) = n
         /\ \A k \in 1..n : Assignable(args[k], ht.in[k])

(***************************************************************************)
(* The response sink (scgiConn, an http.ResponseWriter) and the record of  *)
(* what a dispatch did, in order.                                          *)
(***************************************************************************)
HeaderNames == {"Server", "Date", "Content-Type", "Content-Length"}
NoHeaders == [h \in HeaderNames |-> <<>>]

Ev(op, by, name, val, n, data) ==
    [op |-> op, by |-> by, name |-> name, val |-> val, n |-> n, data |-> data]

\* what conn.fd.Write hands to the peer in one call: a header block (with
\* the status of its status line, 0 for none) or body bytes
Chunk(kind, status, data) == [kind |-> kind, status |-> status, data |-> data]

\* a dispatch's sink and trace before anything happened
NewConn(method) ==
    [method |-> method, headers |-> NoHeaders, wroteHeaders |-> FALSE,
     status |-> 0, sent |-> NoHeaders, body |-> <<>>, wire |-> <<>>,
     trace |-> <<>>]

\* a WriteHeader that does not look at wroteHeaders
ConnWriteHeaderUnguarded(c, by, status) ==
    LET c1 == [c EXCEPT !.trace =
                   Append(@, Ev("WriteHeader", by, "", <<>>, status, <<>>))]
    IN  [c1 EXCEPT !.wroteHeaders = TRUE, !.status = status,
                   !.sent = c.headers,
                   !.wire = Append(@, Chunk("headers", status, <<>>))]

\* scgiConn.WriteHeader: the first call sends the status line and the
\* headers as they are then; later calls are no-ops
ConnWriteHeader(c, by, status) ==
    LET c1 == [c EXCEPT !.trace =
                   Append(@, Ev("WriteHeader", by, "", <<>>, status, <<>>))]
    IN  IF ~c.wroteHeaders
        THEN [c1 EXCEPT !.wroteHeaders = TRUE, !.status = status,
                        !.sent = c.headers,
                        !.wire = Append(@, Chunk("headers", status, <<>>))]
        ELSE c1

\* a Write that hands the data to the connection whatever the method
ConnWriteAnyMethod(c, by, data, fdOk) ==
    LET c0 == [c EXCEPT !.trace =
                   Append(@, Ev("Write", by, "", <<>>, 0, data))]
        c1 == IF ~c0.wroteHeaders
              THEN [c0 EXCEPT !.wroteHeaders = TRUE, !.status = 200,
                              !.sent = c0.headers,
                              !.wire = Append(@, Chunk("headers", 200, <<>>))]
              ELSE c0
    IN  IF fdOk
        THEN [c |-> [c1 EXCEPT !.body = @ \o data,
                               !.wire = Append(@, Chunk("body", 0, data))],
              err |-> FALSE]
        ELSE [c |-> c1, err |-> TRUE]

\* scgiConn.Write: sends the headers with status 200 if none were sent;
\* refuses a body for HEAD; otherwise hands the data to the connection,
\* which takes it (fdOk) or fails
ConnWrite(c, by, data, fdOk) ==
    LET c0 == [c EXCEPT !.trace =
                   Append(@, Ev("Write", by, "", <<>>, 0, data))]
        c1 == IF ~c0.wroteHeaders
              THEN [c0 EXCEPT !.wroteHeaders = TRUE, !.status = 200,
                              !.sent = c0.headers,
                              !.wire = Append(@, Chunk("headers", 200, <<>>))]
              ELSE c0
    IN  IF c.method = "HEAD" THEN [c |-> c1, err |-> TRUE]
        ELSE IF fdOk
        THEN [c |-> [c1 EXCEPT !.body = @ \o data,
                               !.wire = Append(@, Chunk("body", 0, data))],
              err |-> FALSE]
        ELSE [c |-> c1, err |-> TRUE]

\* scgiConn.finishRequest: sends the headers, with no status line, if
\* none were sent
ConnFinishRequest(c) ==
    LET c1 == [c EXCEPT !.trace =
                   Append(@, Ev("finishRequest", "scgi", "", <<>>, 0, <<>>))]
    IN  IF ~c.wroteHeaders
        THEN [c1 EXCEPT !.wroteHeaders = TRUE, !.sent = c.headers,
                        !.wire = Append(@, Chunk("headers", 0, <<>>))]
        ELSE c1

\* Context.SetHeader(hdr, val, true): Header().Set
SetHeader(c, by, hdr, val) ==
    [c EXCEPT !.headers[hdr] = val,
              !.trace = Append(@, Ev("SetHeader", by, hdr, val, 0, <<>>))]

\* Context.Abort(status, body): WriteHeader(status), then Write(body); the
\* result of the Write is dropped, so the connection is taken to accept it
Abort(c, by, status, body) ==
    ConnWrite(ConnWriteHeader(c, by, status), by, Bytes(body), TRUE).c

\* Context.WriteString(content); the result of the Write is dropped
WriteString(c, by, content) ==
    ConnWrite(c, by, Bytes(content), TRUE).c

\* Logger.Println / Printf of a line of the given kind
LogLine(c, kind) ==
    [c EXCEPT !.trace = Append(@, Ev("Log", "dispatcher", kind, <<>>, 0, <<>>))]

\* time.Time.Format(time.RFC1123) of a time in the given zone
FormatRFC1123(zone) == <<"Mon, 02 Jan 2006 15:04:05 ", zone>>

\* a webTime that leaves the zone as Format wrote it
webTimeKeepsUTC(zone) == FormatRFC1123(zone)

\* webTime(t): RFC1123 with a trailing "UTC" rewritten to "GMT"
webTime(zone) ==
    LET ftime == FormatRFC1123(zone) IN
    IF ftime[Len(ftime)] = "UTC"
    THEN SubSeq(ftime, 1, Len(ftime) - 1) \o <<"GMT">>
    ELSE ftime

ServerErrorText == <<"S", "e", "r", "v", "e", "r", " ", "E", "r", "r", "o", "r">>
NotFoundText ==
    <<"P", "a", "g", "e", " ", "n", "o", "t", " ", "f", "o", "u", "n", "d">>

(***************************************************************************)
(* Inputs: what the application registers and what clients request.        *)
(***************************************************************************)
Disp == {"d1"}

\* the requests being served when two clients are connected at once
Disp2 == {"d1", "d2"}

\* req.Form after ParseForm, for the request each client sends: the values
\* of each key, in order
ReqForm ==
    ("d1" :> ("k" :> <<"1">>)) @@ ("d2" :> ("k" :> <<"2", "3">>))

\* ctx.Params as routeHandler fills it: the first value of every key
FillParams(form) ==
    IF DOMAIN form # {} THEN [k \in DOMAIN form |-> form[k][1]] ELSE <<>>

\* route patterns an application passes; "(" does not compile
Patterns == {"/(.*)", "/a", "/(.)(.+)", "("}

\* a handler argument: the function itself, or already a reflect.Value
HandlerArgs == [fn : Handlers, isValue : BOOLEAN]
Func(fn) == [fn |-> fn, isValue |-> FALSE]

MatchMethods == {"HEAD"}
ReqMethods == {"GET", "HEAD", "POST"}
Paths == {<<"/">>, <<"/", "a">>, <<"/", "a", "b">>, <<"/", "/", "a">>}

\* no handler has run
NoBehaviour == [pre |-> "", end |-> "", ret |-> <<>>]

NoRoute == [r |-> "", cr |-> [n |-> 0, nodes |-> <<>>], method |-> "",
            handler |-> ""]

Idle ==
    [pc |-> "idle", path |-> <<>>, conn |-> NewConn(""), sel |-> 0,
     params |-> <<>>, route |-> NoRoute, match |-> <<>>, args |-> <<>>,
     seen |-> <<>>, beh |-> NoBehaviour, ret |-> <<>>, err |-> "",
     outcome |-> "", input |-> <<>>]

NoDispatchInFlight == \A d \in Disp : disp[d].pc = "idle"

(***************************************************************************)
(* Route Table: registration.                                              *)
(***************************************************************************)
\* reflect.ValueOf(handler), or the handler itself when it already is a
\* reflect.Value: the function value stored in the route
HandlerValue(handler) ==
    IF handler.isValue THEN handler.fn ELSE handler.fn

\* an addRoute that logs a compile error and goes on to store the route
addRouteNoReturn(r, method, handler) ==
    LET c == Compile(r) IN
    /\ NoDispatchInFlight
    /\ Len(routes) < MaxRoutes
    /\ regexLog' = IF c.err THEN regexLog \cup {r} ELSE regexLog
    /\ routes' = Append(routes,
            [r |-> r, cr |-> c.cr, method |-> method,
             handler |-> HandlerValue(handler)])
    /\ UNCHANGED <<Config, disp>>

\* an addRoute that puts the new route in front of the table
addRouteInFront(r, method, handler) ==
    LET c == Compile(r) IN
    /\ NoDispatchInFlight
    /\ IF c.err
       THEN /\ regexLog' = regexLog \cup {r}
            /\ UNCHANGED routes
       ELSE /\ Len(routes) < MaxRoutes
            /\ routes' = <<[r |-> r, cr |-> c.cr, method |-> method,
                            handler |-> HandlerValue(handler)]>> \o routes
            /\ UNCHANGED regexLog
    /\ UNCHANGED <<Config, disp>>

\* an addRoute that, for a pattern and method already in the table, puts
\* the new handler in the old route's place
addRouteReplacing(r, method, handler) ==
    LET c == Compile(r)
        same == {k \in 1..Len(routes) :
                    routes[k].r = r /\ routes[k].method = method}
    IN
    /\ NoDispatchInFlight
    /\ IF c.err
       THEN /\ regexLog' = regexLog \cup {r}
            /\ UNCHANGED routes
       ELSE IF same # {}
       THEN /\ routes' = [k \in 1..Len(routes) |->
                            IF k \in same
                            THEN [routes[k] EXCEPT !.handler = HandlerValue(handler)]
                            ELSE routes[k]]
            /\ UNCHANGED regexLog
       ELSE /\ Len(routes) < MaxRoutes
            /\ routes' = Append(routes,
                    [r |-> r, cr |-> c.cr, method |-> method,
                     handler |-> HandlerValue(handler)])
            /\ UNCHANGED regexLog
    /\ UNCHANGED <<Config, disp>>

\* Server.addRoute(r, method, handler)
addRoute(r, method, handler) ==
    LET c == Compile(r) IN
    /\ NoDispatchInFlight
    /\ IF c.err
       THEN /\ regexLog' = regexLog \cup {r}
            /\ UNCHANGED routes
       ELSE /\ Len(routes) < MaxRoutes
            /\ routes' = Append(routes,
                    [r |-> r, cr |-> c.cr, method |-> method,
                     handler |-> HandlerValue(handler)])
            /\ UNCHANGED regexLog
    /\ UNCHANGED <<Config, disp>>

\* Server.Get(route, handler)
Get == \E r \in Patterns, handler \in HandlerArgs : addRoute(r, "GET", handler)

\* Server.Post(route, handler)
Post ==
    \E r \in {"/(.*)", "("}, handler \in {Func("hPlain")} :
        addRoute(r, "POST", handler)

\* Server.Put(route, handler)
Put ==
    \E r \in {"/a", "("}, handler \in {Func("hCtx")} :
        addRoute(r, "PUT", handler)

\* Server.Delete(route, handler)
Delete ==
    \E r \in {"/a", "("}, handler \in {Func("hPlain")} :
        addRoute(r, "DELETE", handler)

\* Server.Match(method, route, handler)
Match ==
    \E method \in MatchMethods, r \in {"/(.*)", "("},
       handler \in {Func("hCtx")} :
        addRoute(r, method, handler)

(***************************************************************************)
(* Matcher.                                                                *)
(***************************************************************************)
\* a method test that also lets a GET request use a HEAD route
MethodEligibleBothWays(reqMethod, routeMethod) ==
    \/ reqMethod = routeMethod
    \/ {reqMethod, routeMethod} = {"GET", "HEAD"}

\* the method test of the scan: the methods are equal, or the request is
\* HEAD and the route is GET
MethodEligible(reqMethod, routeMethod) ==
    ~(reqMethod # routeMethod /\ ~(reqMethod = "HEAD" /\ routeMethod = "GET"))

\* a pattern test without the comparison of lengths: a match anywhere in
\* the path is enough
PathMatchesAnywhere(cr, requestPath) == MatchString(cr, requestPath)

\* the pattern tests of the scan: the pattern matches somewhere in the
\* path, and its leftmost-first match is as long as the path
PathMatches(cr, requestPath) ==
    IF ~MatchString(cr, requestPath) THEN FALSE
    ELSE LET match == FindStringSubmatch(cr, requestPath) IN
         IF ByteLen(match[1]) # ByteLen(requestPath) THEN FALSE ELSE TRUE

RECURSIVE ScanLast(_, _, _, _)
\* a scan that does not stop at the first route that passes: a later route
\* that passes too takes its place
ScanLast(rs, i, reqMethod, requestPath) ==
    IF i > Len(rs) THEN 0
    ELSE LET later == ScanLast(rs, i + 1, reqMethod, requestPath) IN
         IF later # 0 THEN later
         ELSE IF MethodEligible(reqMethod, rs[i].method)
                 /\ PathMatches(rs[i].cr, requestPath)
              THEN i ELSE 0

RECURSIVE ScanStopsAtMethod(_, _, _, _)
\* a scan that tests the pattern of the first route whose method passes
\* and gives up when that pattern fails
ScanStopsAtMethod(rs, i, reqMethod, requestPath) ==
    IF i > Len(rs) THEN 0
    ELSE IF ~MethodEligible(reqMethod, rs[i].method)
         THEN ScanStopsAtMethod(rs, i + 1, reqMethod, requestPath)
    ELSE IF ~PathMatches(rs[i].cr, requestPath) THEN 0
    ELSE i

RECURSIVE ScanFrom(_, _, _, _)
\* the scan loop of routeHandler from index i: the index of the first route
\* that passes both tests, 0 when the loop runs off the end of the table
ScanFrom(rs, i, reqMethod, requestPath) ==
    IF i > Len(rs) THEN 0
    ELSE IF ~MethodEligible(reqMethod, rs[i].method)
         THEN ScanFrom(rs, i + 1, reqMethod, requestPath)
    ELSE IF ~PathMatches(rs[i].cr, requestPath)
         THEN ScanFrom(rs, i + 1, reqMethod, requestPath)
    ELSE i

(***************************************************************************)
(* Argument Binder.                                                        *)
(***************************************************************************)
\* an argument list with the Context after the captures
BindArgsContextLast(d, handler, match) ==
    [k \in 1..(Len(match) - 1) |-> StrVal(match[k + 1])]
        \o (IF requiresContext(HandlerTypes[handler])
            THEN <<CtxRef(d)>> ELSE <<>>)

\* an argument list whose Context is one the server keeps for all requests
BindArgsSharedContext(d, handler, match) ==
    (IF requiresContext(HandlerTypes[handler]) THEN <<CtxRef("d1")>> ELSE <<>>)
        \o [k \in 1..(Len(match) - 1) |-> StrVal(match[k + 1])]

\* an argument list that always starts with the Context
BindArgsAlwaysContext(d, handler, match) ==
    <<CtxRef(d)>> \o [k \in 1..(Len(match) - 1) |-> StrVal(match[k + 1])]

\* the argument list routeHandler assembles for the selected route
BindArgs(d, handler, match) ==
    (IF requiresContext(HandlerTypes[handler]) THEN <<CtxRef(d)>> ELSE <<>>)
        \o [k \in 1..(Len(match) - 1) |-> StrVal(match[k + 1])]

(***************************************************************************)
(* Static files: whether a file exists is the file system's answer at the  *)
(* moment of the attempt.                                                  *)
(***************************************************************************)
\* Server.tryServingFile(name): http.ServeFile answers when the file exists
tryServingFile(c, name, exists) ==
    LET c1 == [c EXCEPT !.trace =
                   Append(@, Ev("tryServingFile", "dispatcher", name, <<>>,
                                IF exists THEN 1 ELSE 0, <<>>))]
    IN  [c |-> IF exists THEN ConnWriteHeader(c1, "ServeFile", 200) ELSE c1,
         served |-> exists]

\* a first attempt that looks for the file whatever the method
StaticAttemptAnyMethod(c, reqMethod, fileExists) ==
    tryServingFile(c, "", fileExists)

\* routeHandler's first attempt: the file named by the request path, for
\* GET and HEAD only
StaticAttempt(c, reqMethod, fileExists) ==
    IF reqMethod = "GET" \/ reqMethod = "HEAD"
    THEN tryServingFile(c, "", fileExists)
    ELSE [c |-> c, served |-> FALSE]

\* a fallback that tries index.htm before index.html
IndexFallbackHtmFirst(c, reqMethod, indexFiles) ==
    IF reqMethod = "GET" \/ reqMethod = "HEAD"
    THEN LET im == tryServingFile(c, "index.htm", "index.htm" \in indexFiles)
         IN  IF im.served THEN im
             ELSE tryServingFile(im.c, "index.html", "index.html" \in indexFiles)
    ELSE [c |-> c, served |-> FALSE]

\* routeHandler's fallback after the scan selected no route: index.html,
\* then index.htm, under the request path, for GET and HEAD only
IndexFallback(c, reqMethod, indexFiles) ==
    IF reqMethod = "GET" \/ reqMethod = "HEAD"
    THEN LET ih == tryServingFile(c, "index.html", "index.html" \in indexFiles)
         IN  IF ih.served THEN ih
             ELSE tryServingFile(ih.c, "index.htm", "index.htm" \in indexFiles)
    ELSE [c |-> c, served |-> FALSE]

(***************************************************************************)
(* routeHandler, up to the call of the selected handler.                   *)
(***************************************************************************)
\* a last line that writes the body and forgets the status
NotFoundBodyOnly(c) == WriteString(c, "dispatcher", NotFoundText)

\* the last line of routeHandler: ctx.Abort(404, "Page not found")
NotFound(c) == Abort(c, "dispatcher", 404, NotFoundText)

RouteHandlerBegin(d, reqMethod, requestPath, fileExists, indexFiles) ==
    LET c0 == NewConn(reqMethod)
        c1 == SetHeader(c0, "dispatcher", "Server", <<"web.go">>)
        c2 == SetHeader(c1, "dispatcher", "Date", webTime("UTC"))
        f == StaticAttempt(c2, reqMethod, fileExists)
        c3 == SetHeader(f.c, "dispatcher", "Content-Type",
                        <<"text/html; charset=utf-8">>)
        i == ScanFrom(routes, 1, reqMethod, requestPath)
        match == FindStringSubmatch(routes[i].cr, requestPath)
        im == IndexFallback(c3, reqMethod, indexFiles)
        done == [Idle EXCEPT !.pc = "done", !.path = requestPath,
                             !.params = FillParams(ReqForm[d])]
    IN  IF f.served
        THEN [done EXCEPT !.conn = f.c, !.outcome = "static"]
        ELSE IF i # 0 /\ TypePanics(routes[i].handler)
        THEN [done EXCEPT !.conn = c3, !.sel = i, !.route = routes[i],
                          !.match = match, !.outcome = "panic",
                          !.err = "reflect: not a function"]
        ELSE IF i # 0
        THEN [done EXCEPT !.pc = "call", !.conn = c3, !.sel = i,
                          !.route = routes[i], !.match = match,
                          !.args = BindArgs(d, routes[i].handler, match)]
        ELSE IF im.served
        THEN [done EXCEPT !.conn = im.c, !.outcome = "index"]
        ELSE [done EXCEPT !.conn = NotFound(im.c), !.outcome = "abort404"]

\* a request arrives; the file system answers the static-file attempts the
\* dispatch makes
RouteHandler(d) ==
    /\ disp[d].pc = "idle"
    /\ \E reqMethod \in ReqMethods, requestPath \in Paths :
        LET getOrHead == reqMethod \in {"GET", "HEAD"}
            selects == ScanFrom(routes, 1, reqMethod, requestPath) # 0
        IN  \E fileExists \in (IF getOrHead THEN BOOLEAN ELSE {FALSE}) :
            \E indexFiles \in (IF getOrHead /\ ~fileExists /\ ~selects
                               THEN SUBSET {"index.html", "index.htm"}
                               ELSE {{}}) :
                disp' = [disp EXCEPT ![d] =
                    RouteHandlerBegin(d, reqMethod, requestPath, fileExists,
                                      indexFiles)]
    /\ UNCHANGED <<routes, Config, regexLog>>

(***************************************************************************)
(* Safe Invoker and Response Coercer: routeHandler from the call on.       *)
(***************************************************************************)
\* the text a handler that echoes its last string argument returns
Echo(args) ==
    IF Len(args) > 0 /\ args[Len(args)].kind = "string"
    THEN args[Len(args)].s ELSE <<>>

\* what a handler's body may do with the arguments it got: write or abort
\* through the Context first (if it has one), then panic or return
Behaviours(args) ==
    { [pre |-> p, end |-> e.end, ret |-> e.ret] :
        p \in (IF Len(args) > 0 /\ args[1].kind = "ptr"
               THEN {"none", "write", "abort"} ELSE {"none"}),
        e \in { [end |-> "panic", ret |-> <<>>],
                [end |-> "return", ret |-> <<>>],
                [end |-> "return", ret |-> <<StrVal(Echo(args))>>],
                [end |-> "return", ret |-> <<StrVal(<<"h", "é">>)>>] } }

\* what the handlers whose first result is no text return
Results ==
       ("hRetBytes" :> <<BytesVal(<<255, 0>>)>>)
    @@ ("hRetNamed" :> <<NamedBytesVal(<<255, 0>>)>>)
    @@ ("hRetInt" :> <<IntVal>>)
    @@ ("hRetNil" :> <<NilPtrVal>>)
    @@ ("hRetTwo" :> <<IntVal, StrVal(<<"a">>)>>)

\* what the body of the handler function may do when it is called with args
HandlerBehaviours(function, args) ==
    IF function \in DOMAIN Results
    THEN {[pre |-> "none", end |-> "return", ret |-> Results[function]]}
    ELSE IF function = "hSetType"
    THEN {[pre |-> "header", end |-> "return", ret |-> <<StrVal(<<"a">>)>>]}
    ELSE Behaviours(args)

\* the handler's own use of the Context before it returns or panics:
\* ctx.WriteString("x"), ctx.Abort(403, "x") or
\* ctx.SetHeader("Content-Type", "text/plain", true)
HandlerBody(c, beh) ==
    IF beh.pre = "write" THEN WriteString(c, "handler", <<"x">>)
    ELSE IF beh.pre = "header"
    THEN SetHeader(c, "handler", "Content-Type", <<"text/plain">>)
    ELSE IF beh.pre = "abort" THEN Abort(c, "handler", 403, <<"x">>)
    ELSE c

\* a safelyCall whose deferred function re-panics whatever the
\* configuration says
safelyCallNoRecover(c, function, args, beh, RecoverPanic) ==
    LET fits == CallFits(HandlerTypes[function], args)
        entered == [c EXCEPT !.trace =
                       Append(@, Ev("Call", "dispatcher", function, <<>>,
                                    IF fits THEN 1 ELSE 0, <<>>))]
        called == IF fits THEN HandlerBody(entered, beh) ELSE entered
        e == IF ~fits THEN "reflect: Call with wrong arguments"
             ELSE IF beh.end = "panic" THEN "handler panic" ELSE ""
    IN  IF e # ""
        THEN [c |-> called, resp |-> <<>>, e |-> e, panics |-> TRUE]
        ELSE [c |-> called, resp |-> beh.ret, e |-> "", panics |-> FALSE]

\* a safelyCall whose deferred function swallows the panic whatever the
\* configuration says
safelyCallAlwaysRecover(c, function, args, beh, RecoverPanic) ==
    LET fits == CallFits(HandlerTypes[function], args)
        entered == [c EXCEPT !.trace =
                       Append(@, Ev("Call", "dispatcher", function, <<>>,
                                    IF fits THEN 1 ELSE 0, <<>>))]
        called == IF fits THEN HandlerBody(entered, beh) ELSE entered
        e == IF ~fits THEN "reflect: Call with wrong arguments"
             ELSE IF beh.end = "panic" THEN "handler panic" ELSE ""
    IN  IF e # ""
        THEN [c |-> LogLine(called, "Handler crashed with error"),
              resp |-> <<>>, e |-> e, panics |-> FALSE]
        ELSE [c |-> called, resp |-> beh.ret, e |-> "", panics |-> FALSE]

\* a safelyCall that calls the function once more after a recovered panic
safelyCallRetry(c, function, args, beh, RecoverPanic) ==
    LET fits == CallFits(HandlerTypes[function], args)
        call == Ev("Call", "dispatcher", function, <<>>,
                   IF fits THEN 1 ELSE 0, <<>>)
        entered == [c EXCEPT !.trace = Append(@, call)]
        called == IF fits THEN HandlerBody(entered, beh) ELSE entered
        again == [called EXCEPT !.trace = Append(@, call)]
        e == IF ~fits THEN "reflect: Call with wrong arguments"
             ELSE IF beh.end = "panic" THEN "handler panic" ELSE ""
    IN  IF e # ""
        THEN IF ~RecoverPanic
             THEN [c |-> called, resp |-> <<>>, e |-> e, panics |-> TRUE]
             ELSE [c |-> LogLine(IF fits THEN HandlerBody(again, beh) ELSE again,
                                 "Handler crashed with error"),
                   resp |-> <<>>, e |-> e, panics |-> FALSE]
        ELSE [c |-> called, resp |-> beh.ret, e |-> "", panics |-> FALSE]

\* Server.safelyCall(function, args): function.Call(args) under recover
safelyCall(c, function, args, beh, RecoverPanic) ==
    LET fits == CallFits(HandlerTypes[function], args)
        entered == [c EXCEPT !.trace =
                       Append(@, Ev("Call", "dispatcher", function, <<>>,
                                    IF fits THEN 1 ELSE 0, <<>>))]
        called == IF fits THEN HandlerBody(entered, beh) ELSE entered
        e == IF ~fits THEN "reflect: Call with wrong arguments"
             ELSE IF beh.end = "panic" THEN "handler panic" ELSE ""
    IN  IF e # ""
        THEN IF ~RecoverPanic
             THEN [c |-> called, resp |-> <<>>, e |-> e, panics |-> TRUE]
             ELSE [c |-> LogLine(called, "Handler crashed with error"),
                   resp |-> <<>>, e |-> e, panics |-> FALSE]
        ELSE [c |-> called, resp |-> beh.ret, e |-> "", panics |-> FALSE]

\* sval.Interface().([]byte) panics unless the value's type is []byte
\* itself: a declared type with that underlying type has kind Slice and
\* element kind Uint8 and fails the assertion
CoercePanics(sval) == sval.kind = "namedbytes"

\* a conversion that takes one byte for each character of a text
CoerceOneBytePerChar(sval) ==
    IF sval.kind = "string"
    THEN [k \in 1..Len(sval.s) |-> Head(Utf8Table[sval.s[k]])]
    ELSE IF sval.kind = "bytes" THEN sval.b
    ELSE <<>>

\* the payload of a handler's first return value
Coerce(sval) ==
    IF sval.kind = "string" THEN Bytes(sval.s)
    ELSE IF sval.kind = "bytes" THEN sval.b
    ELSE <<>>

\* a routeHandler that derives Content-Length from the return values and
\* writes before it looks whether there are any
RespondBeforeTest(c, ret, fdOk) ==
    LET content == IF Len(ret) = 0 THEN <<>> ELSE Coerce(ret[1])
        c2 == SetHeader(c, "dispatcher", "Content-Length", Itoa(Len(content)))
        w == ConnWrite(c2, "dispatcher", content, fdOk)
        c3 == IF w.err THEN LogLine(w.c, "Error during write") ELSE w.c
    IN  [c |-> c3, wrote |-> Len(ret) # 0, panics |-> FALSE]

\* a Respond that writes the payload again after a failed write
RespondRetry(c, ret, fdOk) ==
    IF Len(ret) = 0 THEN [c |-> c, wrote |-> FALSE, panics |-> FALSE]
    ELSE IF CoercePanics(ret[1])
    THEN [c |-> c, wrote |-> FALSE, panics |-> TRUE]
    ELSE LET content == Coerce(ret[1])
             c2 == SetHeader(c, "dispatcher", "Content-Length",
                             Itoa(Len(content)))
             w == ConnWrite(c2, "dispatcher", content, fdOk)
             w2 == IF w.err THEN ConnWrite(w.c, "dispatcher", content, fdOk)
                   ELSE w
             c3 == IF w2.err THEN LogLine(w2.c, "Error during write") ELSE w2.c
         IN  [c |-> c3, wrote |-> TRUE, panics |-> FALSE]

\* routeHandler after the call: nothing for a handler without return
\* values; otherwise Content-Length and the payload of the first one
Respond(c, ret, fdOk) ==
    IF Len(ret) = 0 THEN [c |-> c, wrote |-> FALSE, panics |-> FALSE]
    ELSE IF CoercePanics(ret[1])
    THEN [c |-> c, wrote |-> FALSE, panics |-> TRUE]
    ELSE LET content == Coerce(ret[1])
             c2 == SetHeader(c, "dispatcher", "Content-Length",
                             Itoa(Len(content)))
             w == ConnWrite(c2, "dispatcher", content, fdOk)
             c3 == IF w.err THEN LogLine(w.c, "Error during write") ELSE w.c
         IN  [c |-> c3, wrote |-> TRUE, panics |-> FALSE]

\* one Context for the whole server: whatever a handler does through its
\* Context lands in the response of the first connection
CtxOfShared(d, args) ==
    IF Len(args) > 0 /\ args[1].kind = "ptr" THEN "d1" ELSE d

\* the dispatch whose Context the handler called by d was handed: the one
\* its first argument points to; a handler without a Context has only d's
\* return path
CtxOf(d, args) ==
    IF Len(args) > 0 /\ args[1].kind = "ptr" THEN args[1].ref ELSE d

\* ctx.Params as the handler called by d reads it through its argument
SeenParams(d, args) ==
    IF Len(args) > 0 /\ args[1].kind = "ptr"
    THEN disp[args[1].ref].params ELSE <<>>

\* a routeHandler that, after a handler without return values, goes on with
\* the next iteration of the scan loop instead of returning
RouteHandlerCallContinue(d, beh, fdOk) ==
    /\ disp[d].pc = "call"
    /\ LET me == disp[d]
           ctx == CtxOf(d, me.args)
           r == safelyCall(me.conn, me.route.handler, me.args,
                           IF ctx = d THEN beh ELSE [beh EXCEPT !.pre = "none"],
                           Config.RecoverPanic)
           c1 == IF r.e # ""
                 THEN Abort(r.c, "dispatcher", 500, ServerErrorText)
                 ELSE r.c
           rsp == Respond(c1, r.resp, fdOk)
           i == ScanFrom(routes, me.sel + 1, me.conn.method, me.path)
           match == FindStringSubmatch(routes[i].cr, me.path)
           done == [me EXCEPT !.pc = "done", !.beh = beh, !.ret = r.resp,
                              !.err = r.e, !.seen = SeenParams(d, me.args)]
           mine ==
             IF r.panics
             THEN [done EXCEPT !.conn = r.c, !.outcome = "panic"]
             ELSE IF rsp.panics
             THEN [done EXCEPT !.conn = rsp.c, !.outcome = "panic"]
             ELSE IF rsp.wrote
             THEN [done EXCEPT !.conn = rsp.c, !.outcome = "written"]
             ELSE IF i # 0
             THEN [done EXCEPT !.pc = "call", !.conn = rsp.c, !.sel = i,
                               !.route = routes[i], !.match = match,
                               !.args = BindArgs(d, routes[i].handler, match)]
             ELSE [done EXCEPT !.conn = NotFound(rsp.c), !.outcome = "abort404"]
       IN  disp' = [x \in DOMAIN disp |->
                       IF x = d THEN mine
                       ELSE IF x = ctx
                       THEN [disp[x] EXCEPT !.conn = HandlerBody(@, beh)]
                       ELSE disp[x]]
    /\ UNCHANGED <<routes, Config, regexLog>>

\* a routeHandler that leaves the loop after the 500 abort instead of
\* returning, and so reaches its last line
RouteHandlerCallBreak(d, beh, fdOk) ==
    /\ disp[d].pc = "call"
    /\ LET me == disp[d]
           ctx == CtxOf(d, me.args)
           r == safelyCall(me.conn, me.route.handler, me.args,
                           IF ctx = d THEN beh ELSE [beh EXCEPT !.pre = "none"],
                           Config.RecoverPanic)
           c1 == IF r.e # ""
                 THEN NotFound(Abort(r.c, "dispatcher", 500, ServerErrorText))
                 ELSE r.c
           rsp == Respond(c1, r.resp, fdOk)
           done == [me EXCEPT !.pc = "done", !.beh = beh, !.ret = r.resp,
                              !.err = r.e, !.seen = SeenParams(d, me.args)]
           mine ==
             IF r.panics
             THEN [done EXCEPT !.conn = r.c, !.outcome = "panic"]
             ELSE IF rsp.panics
             THEN [done EXCEPT !.conn = rsp.c, !.outcome = "panic"]
             ELSE [done EXCEPT !.conn = rsp.c,
                     !.outcome = IF rsp.wrote THEN "written"
                                 ELSE IF r.e # "" THEN "abort500"
                                 ELSE "returned"]
       IN  disp' = [x \in DOMAIN disp |->
                       IF x = d THEN mine
                       ELSE IF x = ctx
                       THEN [disp[x] EXCEPT !.conn = HandlerBody(@, beh)]
                       ELSE disp[x]]
    /\ UNCHANGED <<routes, Config, regexLog>>

\* routeHandler from the call of the selected handler to its return
RouteHandlerCall(d, beh, fdOk) ==
    /\ disp[d].pc = "call"
    /\ LET me == disp[d]
           ctx == CtxOf(d, me.args)
           r == safelyCall(me.conn, me.route.handler, me.args,
                           IF ctx = d THEN beh ELSE [beh EXCEPT !.pre = "none"],
                           Config.RecoverPanic)
           c1 == IF r.e # ""
                 THEN Abort(r.c, "dispatcher", 500, ServerErrorText)
                 ELSE r.c
           rsp == Respond(c1, r.resp, fdOk)
           done == [me EXCEPT !.pc = "done", !.beh = beh, !.ret = r.resp,
                              !.err = r.e, !.seen = SeenParams(d, me.args)]
           mine ==
             IF r.panics
             THEN [done EXCEPT !.conn = r.c, !.outcome = "panic"]
             ELSE IF rsp.panics
             THEN [done EXCEPT !.conn = rsp.c, !.outcome = "panic"]
             ELSE [done EXCEPT !.conn = rsp.c,
                     !.outcome = IF rsp.wrote THEN "written"
                                 ELSE IF r.e # "" THEN "abort500"
                                 ELSE "returned"]
       IN  disp' = [x \in DOMAIN disp |->
                       IF x = d THEN mine
                       ELSE IF x = ctx
                       THEN [disp[x] EXCEPT !.conn = HandlerBody(@, beh)]
                       ELSE disp[x]]
    /\ UNCHANGED <<routes, Config, regexLog>>

HandlerCall(d) ==
    \E beh \in HandlerBehaviours(disp[d].route.handler, disp[d].args),
       fdOk \in BOOLEAN :
        RouteHandlerCall(d, beh, fdOk)

\* the dispatch is over: its Context and locals are discarded
Finish(d) ==
    /\ disp[d].pc = "done"
    /\ disp' = [disp EXCEPT ![d] = Idle]
    /\ UNCHANGED <<routes, Config, regexLog>>

Init ==
    /\ routes = <<>>
    /\ Config \in [RecoverPanic : BOOLEAN]
    /\ regexLog = {}
    /\ disp = [d \in Disp |-> Idle]

Next ==
    \/ Get
    \/ Post
    \/ Put
    \/ Delete
    \/ Match
    \/ \E d \in Disp : RouteHandler(d)
    \/ \E d \in Disp : HandlerCall(d)
    \/ \E d \in Disp : Finish(d)

Spec == Init /\ [][Next]_vars

\* the handler that was called returns or panics, and the transport's
\* calls return: the call step of a dispatch is not postponed for ever
FairSpec == Spec /\ \A d \in Disp : WF_vars(HandlerCall(d))

(***************************************************************************)
(* Two requests served at once (one goroutine each) by a server whose      *)
(* routes were registered before it began to serve.                        *)
(***************************************************************************)
\* the route a successful addRoute(r, method, fn) stores
RouteOf(r, method, fn) ==
    [r |-> r, cr |-> Compile(r).cr, method |-> method, handler |-> fn]

InitConc ==
    /\ routes = <<RouteOf("/(.*)", "GET", "hCtx")>>
    /\ Config = [RecoverPanic |-> TRUE]
    /\ regexLog = {}
    /\ disp = [d \in Disp2 |-> Idle]

NextConc ==
    \/ \E d \in Disp2 : RouteHandler(d)
    \/ \E d \in Disp2 : HandlerCall(d)
    \/ \E d \in Disp2 : Finish(d)

SpecConc == InitConc /\ [][NextConc]_vars

(***************************************************************************)
(* One SCGI connection (handleScgiRequest): whatever runs inside           *)
(* routeHandler calls WriteHeader and Write on the scgiConn in any order,  *)
(* then finishRequest is called once and the connection is closed.         *)
(***************************************************************************)
MaxScgiCalls == 3
ScgiStatuses == {200, 404}
ScgiData == {<<>>, <<120>>}

\* the calls made on the connection of d so far
ScgiCalls(d) == Len(disp[d].conn.trace)

ScgiWriteHeader(d) ==
    /\ disp[d].pc = "scgi"
    /\ ScgiCalls(d) < MaxScgiCalls
    /\ \E status \in ScgiStatuses :
          disp' = [disp EXCEPT
                     ![d].conn = ConnWriteHeader(@, "handler", status)]
    /\ UNCHANGED <<routes, Config, regexLog>>

ScgiWrite(d) ==
    /\ disp[d].pc = "scgi"
    /\ ScgiCalls(d) < MaxScgiCalls
    /\ \E data \in ScgiData, fdOk \in BOOLEAN :
          disp' = [disp EXCEPT
                     ![d].conn = ConnWrite(@, "handler", data, fdOk).c]
    /\ UNCHANGED <<routes, Config, regexLog>>

ScgiFinishRequest(d) ==
    /\ disp[d].pc = "scgi"
    /\ disp' = [disp EXCEPT ![d].conn = ConnFinishRequest(@),
                            ![d].pc = "closed"]
    /\ UNCHANGED <<routes, Config, regexLog>>

InitScgi ==
    /\ routes = <<>>
    /\ Config = [RecoverPanic |-> TRUE]
    /\ regexLog = {}
    /\ \E method \in ReqMethods :
          disp = [d \in Disp |->
                    [Idle EXCEPT !.pc = "scgi", !.conn = NewConn(method)]]

NextScgi ==
    \/ \E d \in Disp : ScgiWriteHeader(d)
    \/ \E d \in Disp : ScgiWrite(d)
    \/ \E d \in Disp : ScgiFinishRequest(d)

SpecScgi == InitScgi /\ [][NextScgi]_vars

(***************************************************************************)
(* The SCGI server (listenAndServeScgi): every accepted connection is      *)
(* handled by its own goroutine, which reads the request, runs             *)
(* routeHandler, finishes the response and closes the connection. A panic  *)
(* that no deferred function of the goroutine recovers ends the process,   *)
(* and with it every connection.                                           *)
(***************************************************************************)
\* what a client may send before it stops sending: the netstring of the
\* header block and a comma. The header block "MP" stands for one that
\* cgi.RequestFromMap accepts, any other for one that it refuses.
GoodRequest == <<"2", ":", "M", "P", ",">>
ScgiInputs ==
    { GoodRequest,
      <<>>,
      <<"2">>,
      <<"2", ":", "M">>,
      <<"2", ":", "M", "P">>,
      <<"2", ":", "M", "P", ";">>,
      <<"2", ":", "X", "X", ",">>,
      <<"x", ":", ",">>,
      <<"-", "1", ":", ",">> }

GoodHeaderBlocks == {<<"M", "P">>}

IsDigit(ch) == \E k \in 1..Len(Digit) : Digit[k] = ch
DigitValue(ch) == (CHOOSE k \in 1..Len(Digit) : Digit[k] = ch) - 1

RECURSIVE Decimal(_)
Decimal(s) ==
    IF s = <<>> THEN 0
    ELSE 10 * Decimal(SubSeq(s, 1, Len(s) - 1)) + DigitValue(s[Len(s)])

\* strconv.Atoi with its error dropped: the number, or 0 for a text that is
\* no number
Atoi(s) ==
    LET neg == Len(s) > 0 /\ s[1] = "-"
        digits == IF neg THEN Tail(s) ELSE s
    IN  IF digits = <<>> \/ \E k \in 1..Len(digits) : ~IsDigit(digits[k])
        THEN 0
        ELSE IF neg THEN 0 - Decimal(digits) ELSE Decimal(digits)

\* where the first ':' of the input is, 0 if there is none
ColonAt(input) ==
    IF \E k \in 1..Len(input) : input[k] = ":"
    THEN CHOOSE k \in 1..Len(input) :
            input[k] = ":" /\ \A j \in 1..(k - 1) : input[j] # ":"
    ELSE 0

\* Server.readScgiRequest(fd): the request, or an error, or a panic; and
\* the lines it logs
readScgiRequest(input) ==
    LET at == ColonAt(input)
        line == IF at = 0 THEN input ELSE SubSeq(input, 1, at)
        log == IF at = 0 THEN <<"Error during SCGI read">> ELSE <<>>
        length == Atoi(SubSeq(line, 1, Len(line) - 1))
        rest == SubSeq(input, Len(line) + 1, Len(input))
        got == IF length < Len(rest) THEN length ELSE Len(rest)
        headerData == SubSeq(rest, 1, got)
        after == SubSeq(rest, got + 1, Len(rest))
        Fail(e) == [ok |-> FALSE, err |-> e, panics |-> FALSE, log |-> log]
    IN  IF Len(line) = 0
        THEN [ok |-> FALSE, err |-> "slice bounds out of range",
              panics |-> TRUE, log |-> log]
        ELSE IF length < 0
        THEN [ok |-> FALSE, err |-> "makeslice: len out of range",
              panics |-> TRUE, log |-> log]
        ELSE IF length > 0 /\ rest = <<>> THEN Fail("EOF")
        ELSE IF after = <<>> THEN Fail("EOF")
        ELSE IF after[1] # "," THEN Fail("SCGI protocol error: missing comma")
        ELSE IF headerData \notin GoodHeaderBlocks THEN Fail("cgi")
        ELSE [ok |-> TRUE, err |-> "", panics |-> FALSE, log |-> log]

\* the lines of the Logger appended to the trace of a connection
RECURSIVE LogAll(_, _)
LogAll(c, lines) ==
    IF lines = <<>> THEN c
    ELSE LogAll([c EXCEPT !.trace =
                    Append(@, Ev("Log", "scgi", Head(lines), <<>>, 0, <<>>))],
                Tail(lines))

ScgiEvent(c, op, n) ==
    [c EXCEPT !.trace = Append(@, Ev(op, "scgi", "", <<>>, n, <<>>))]

\* l.Accept() gave a connection and its goroutine was started
ScgiAccept(d) ==
    /\ disp[d].pc = "idle"
    /\ \E input \in ScgiInputs :
          disp' = [disp EXCEPT ![d] =
                     [Idle EXCEPT !.pc = "reading", !.input = input]]
    /\ UNCHANGED <<routes, Config, regexLog>>

\* Server.handleScgiRequest(fd): readScgiRequest, the log line for its
\* error, routeHandler with the request it returned (nil after an error:
\* routeHandler panics on req.URL), finishRequest, fd.Close(). The
\* goroutine recovers no panic, so a panic ends the process.
HandleScgiRequest(d) ==
    /\ disp[d].pc = "reading"
    /\ LET r == readScgiRequest(disp[d].input)
           c1 == LogAll(disp[d].conn, r.log)
           c2 == IF r.err # "" /\ ~r.panics
                 THEN LogAll(c1, <<"SCGI error">>) ELSE c1
           c3 == IF r.panics THEN c1
                 ELSE ScgiEvent(c2, "routeHandler", IF r.ok THEN 1 ELSE 0)
       IN  IF r.ok
           THEN disp' = [disp EXCEPT ![d].pc = "closed",
                           ![d].conn = ScgiEvent(ConnFinishRequest(c3),
                                                 "Close", 0),
                           ![d].outcome = "served"]
           ELSE disp' = [x \in DOMAIN disp |->
                           IF x = d
                           THEN [disp[x] EXCEPT !.pc = "exited", !.conn = c3,
                                                !.err = r.err,
                                                !.outcome = "panic"]
                           ELSE [disp[x] EXCEPT !.pc = "exited"]]
    /\ UNCHANGED <<routes, Config, regexLog>>

\* the goroutine of a served connection is over
ScgiDone(d) ==
    /\ disp[d].pc = "closed"
    /\ disp' = [disp EXCEPT ![d] = Idle]
    /\ UNCHANGED <<routes, Config, regexLog>>

InitServe ==
    /\ routes = <<RouteOf("/(.*)", "GET", "hPlain")>>
    /\ Config = [RecoverPanic |-> TRUE]
    /\ regexLog = {}
    /\ disp = [d \in Disp2 |-> Idle]

NextServe ==
    \/ \E d \in Disp2 : ScgiAccept(d)
    \/ \E d \in Disp2 : HandleScgiRequest(d)
    \/ \E d \in Disp2 : ScgiDone(d)

SpecServe == InitServe /\ [][NextServe]_vars

(***************************************************************************)
(* Secure cookies (SetSecureCookie, GetSecureCookie). A cookie value is a  *)
(* sequence of tokens: the character '|', a base64 text, a decimal number  *)
(* (a time, counted in days), or the hex digest of an HMAC.                *)
(***************************************************************************)
Tok(kind, text, num, key, data) ==
    [kind |-> kind, text |-> text, num |-> num, key |-> key, data |-> data]
Bar == Tok("bar", "", 0, "", <<>>)
\* base64 of the text
B64(text) == Tok("b64", text, 0, "", <<>>)
\* strconv.FormatInt(n, 10)
Num(n) == Tok("num", "", n, "", <<>>)
\* a text that is neither
Raw(text) == Tok("raw", text, 0, "", <<>>)

\* the cookie is refused when it is older than this many days (31*86400 s)
MaxCookieDays == 31
\* time.Now(), in days
Today == 40

\* getCookieSig(key, val, timestamp): the digest of the HMAC, keyed with
\* key, of val followed by timestamp
getCookieSig(key, val, timestamp) ==
    <<Tok("sig", "", 0, key, val \o timestamp)>>

\* the value of the cookie SetSecureCookie sets for val at time now; it
\* sets none when no secret is configured
SetSecureCookie(secret, val, now) ==
    IF secret = "" THEN <<>>
    ELSE <<B64(val), Bar>> \o <<Num(now), Bar>>
            \o getCookieSig(secret, <<B64(val)>>, <<Num(now)>>)

\* where the first '|' of the token sequence is, 0 if there is none
BarAt(s) ==
    IF \E k \in 1..Len(s) : s[k] = Bar
    THEN CHOOSE k \in 1..Len(s) : s[k] = Bar /\ \A j \in 1..(k - 1) : s[j] # Bar
    ELSE 0

\* strings.SplitN(s, "|", 3)
SplitN3(s) ==
    LET a == BarAt(s)
        r1 == SubSeq(s, a + 1, Len(s))
        b == BarAt(r1)
    IN  IF a = 0 THEN <<s>>
        ELSE IF b = 0 THEN <<SubSeq(s, 1, a - 1), r1>>
        ELSE <<SubSeq(s, 1, a - 1), SubSeq(r1, 1, b - 1),
               SubSeq(r1, b + 1, Len(r1))>>

\* strconv.ParseInt(timestamp, 0, 64) with its error dropped
ParseInt(timestamp) ==
    IF Len(timestamp) = 1 /\ timestamp[1].kind = "num"
    THEN timestamp[1].num ELSE 0

\* the base64 decoder with its error dropped: the text of a base64 token,
\* nothing for what is no base64
Base64Decode(val) ==
    IF Len(val) = 1 /\ val[1].kind = "b64" THEN val[1].text ELSE ""

\* the index of the first cookie with the name, 0 if there is none
FirstNamed(cookies, name) ==
    IF \E k \in 1..Len(cookies) : cookies[k].name = name
    THEN CHOOSE k \in 1..Len(cookies) :
            /\ cookies[k].name = name
            /\ \A j \in 1..(k - 1) : cookies[j].name # name
    ELSE 0

\* Context.GetSecureCookie(name): decided by the first cookie of the name;
\* parts[1] and parts[2] are read whatever SplitN returned
GetSecureCookie(cookies, name, secret, now) ==
    LET k == FirstNamed(cookies, name)
        parts == SplitN3(cookies[k].value)
        No == [val |-> "", ok |-> FALSE, panics |-> FALSE]
    IN  IF k = 0 THEN No
        ELSE IF Len(parts) < 3
        THEN [val |-> "", ok |-> FALSE, panics |-> TRUE]
        ELSE IF getCookieSig(secret, parts[1], parts[2]) # parts[3] THEN No
        ELSE IF now - MaxCookieDays > ParseInt(parts[2]) THEN No
        ELSE [val |-> Base64Decode(parts[1]), ok |-> TRUE, panics |-> FALSE]

\* the name the application asks for, and the secrets a server may be
\* configured with
CookieName == "s"
CookieSecrets == {"k", "k2"}

\* cookie values a client may present: cookies the server set (today, 31
\* and 32 days ago), and what a client can make up without the secret
CookieValues ==
    { SetSecureCookie(key, "v", t) : key \in CookieSecrets, t \in {8, 9, 40} }
    \cup { <<B64("w"), Bar, Num(40), Bar>>
               \o getCookieSig("k", <<B64("v")>>, <<Num(40)>>),
           <<B64("v"), Bar, Num(40), Bar>>
               \o getCookieSig("k", <<B64("v")>>, <<Num(9)>>),
           <<B64("v"), Bar, Num(40), Bar, Raw("x")>>,
           <<B64("v"), Bar, Num(40), Bar>>,
           <<B64("v"), Bar, Num(40)>>,
           <<B64("v")>>,
           <<>> }

Cookie(name, value) == [name |-> name, value |-> value]

\* Request.Cookies(): at most two cookies
CookieJars ==
    {<<>>}
    \cup { <<Cookie(n, v)>> : n \in {CookieName, "o"}, v \in CookieValues }
    \cup { <<Cookie(CookieName, v), Cookie(CookieName, w)>> :
              v \in CookieValues, w \in {SetSecureCookie("k", "v", 40)} }

\* a request with cookies arrived
CookieRequest(d) ==
    /\ disp[d].pc = "idle"
    /\ \E jar \in CookieJars :
          disp' = [disp EXCEPT ![d] =
                     [Idle EXCEPT !.pc = "cookies", !.input = jar]]
    /\ UNCHANGED <<routes, Config, regexLog>>

\* the application calls ctx.GetSecureCookie(CookieName)
GetSecureCookieCall(d) ==
    /\ disp[d].pc = "cookies"
    /\ LET r == GetSecureCookie(disp[d].input, CookieName,
                                Config.CookieSecret, Today)
       IN  disp' = [disp EXCEPT
                      ![d].pc = "done",
                      ![d].ret = <<StrVal(IF r.val = "" THEN <<>>
                                          ELSE <<r.val>>)>>,
                      ![d].outcome = IF r.panics THEN "panic"
                                     ELSE IF r.ok THEN "true" ELSE "false"]
    /\ UNCHANGED <<routes, Config, regexLog>>

InitCookie ==
    /\ routes = <<>>
    /\ Config \in [RecoverPanic : {TRUE}, CookieSecret : CookieSecrets]
    /\ regexLog = {}
    /\ disp = [d \in Disp |-> Idle]

NextCookie ==
    \/ \E d \in Disp : CookieRequest(d)
    \/ \E d \in Disp : GetSecureCookieCall(d)
    \/ \E d \in Disp : Finish(d)

SpecCookie == InitCookie /\ [][NextCookie]_vars

(***************************************************************************)
(* A server whose application registered one GET route before it began to  *)
(* serve: any of the patterns, with a handler of any of the shapes.        *)
(***************************************************************************)
ShapePatterns == {"/a", "/(.*)", "/a|/ab"}

InitShapes ==
    /\ routes \in {<<RouteOf(r, "GET", fn)>> :
                      r \in ShapePatterns, fn \in DOMAIN HandlerTypes}
    /\ Config \in [RecoverPanic : BOOLEAN]
    /\ regexLog = {}
    /\ disp = [d \in Disp |-> Idle]

NextShapes ==
    \/ \E d \in Disp : RouteHandler(d)
    \/ \E d \in Disp : HandlerCall(d)
    \/ \E d \in Disp : Finish(d)

SpecShapes == InitShapes /\ [][NextShapes]_vars

(***************************************************************************)
(* The claims.                                                             *)
(***************************************************************************)
ReqMethod(d) == disp[d].conn.method

\* the dispatch of d got as far as the scan of the route table
Scanned(d) == disp[d].pc # "idle" /\ disp[d].outcome # "static"

\* route k may serve a request with method m
MethodAllows(m, k) ==
    routes[k].method = m \/ (m = "HEAD" /\ routes[k].method = "GET")

\* the text the pattern finds in the path is the path, from its first
\* character to its last
FindsWholePath(cr, path) ==
    /\ LeftmostStart(cr, path) = 1
    /\ FindStringSubmatch(cr, path)[1] = path

IsCall(e) == e.op = "Call"
Calls(d) == SelectSeq(disp[d].conn.trace, IsCall)

\* C1: order invariant. Of the routes whose method serves the request and
\* whose pattern finds the whole path, the one registered first is the one
\* selected, and its handler is the only one invoked; a route registered
\* later is never preferred.
C1_OrderInvariant ==
    \A d \in Disp : Scanned(d) =>
        /\ \A k \in 1..Len(routes) :
              (MethodAllows(ReqMethod(d), k)
                    /\ FindsWholePath(routes[k].cr, disp[d].path))
              => /\ disp[d].sel \in 1..k
                 /\ disp[d].route = routes[disp[d].sel]
        /\ (disp[d].pc = "done" /\ disp[d].sel # 0)
              => /\ Len(Calls(d)) = 1
                 /\ Calls(d)[1].name = routes[disp[d].sel].handler

\* "/(.*)" registered before "/a", GET /a: served by the first route with
\* the capture "a"
C1_Witness ==
    \E d \in Disp :
        /\ disp[d].pc = "done" /\ disp[d].outcome = "written"
        /\ Len(routes) = 2
        /\ routes[1].r = "/(.*)" /\ routes[1].method = "GET"
        /\ routes[2].r = "/a" /\ routes[2].method = "GET"
        /\ ReqMethod(d) = "GET" /\ disp[d].path = <<"/", "a">>
        /\ disp[d].sel = 1
        /\ disp[d].match = <<(<<"/", "a">>), (<<"a">>)>>

\* the pattern has a match that starts at the first character of the path
\* and ends after its last
CanMatchWhole(cr, path) ==
    \E j \in 1..Len(MatchesAt(cr, path, 1)) :
        MatchesAt(cr, path, 1)[j].e = Len(path) + 1

\* C2: full-path-match invariant. Whenever a route is selected, the text
\* its pattern matched is the whole request path: it starts at the first
\* character, ends at the last and has the same content. A route whose
\* pattern only matches a strict prefix, a strict suffix or an inner part
\* of the path is never selected.
C2_FullPathMatch ==
    \A d \in Disp : disp[d].sel # 0 =>
        /\ disp[d].match[1] = disp[d].path
        /\ LeftmostStart(disp[d].route.cr, disp[d].path) = 1
        /\ CanMatchWhole(disp[d].route.cr, disp[d].path)
        /\ \A k \in 1..Len(routes) :
              ~CanMatchWhole(routes[k].cr, disp[d].path) => disp[d].sel # k

\* GET /ab with "/a" registered first: "/a" matches only the prefix "/a",
\* is passed over, and the second route serves the request
C2_Witness ==
    \E d \in Disp :
        /\ disp[d].pc = "done"
        /\ Len(routes) = 2
        /\ routes[1].r = "/a" /\ routes[1].method = "GET"
        /\ MatchString(routes[1].cr, disp[d].path)
        /\ ReqMethod(d) = "GET" /\ disp[d].path = <<"/", "a", "b">>
        /\ disp[d].sel = 2

\* C3: a HEAD request may be served by a GET route, a GET request is never
\* served by a HEAD route, and for every other pair of methods the selected
\* route's method is the request's method; a HEAD request for which a GET
\* route finds the whole path does get a route.
C3_MethodMatching ==
    \A d \in Disp : Scanned(d) =>
        /\ disp[d].sel # 0 =>
              \/ disp[d].route.method = ReqMethod(d)
              \/ (ReqMethod(d) = "HEAD" /\ disp[d].route.method = "GET")
        /\ (ReqMethod(d) = "HEAD"
              /\ \E k \in 1..Len(routes) :
                    /\ routes[k].method = "GET"
                    /\ FindsWholePath(routes[k].cr, disp[d].path))
              => disp[d].sel # 0

\* a HEAD request served by a route registered with GET, in a table that
\* has no HEAD route
C3_Witness ==
    \E d \in Disp :
        /\ disp[d].pc = "done"
        /\ ReqMethod(d) = "HEAD"
        /\ disp[d].sel # 0 /\ disp[d].route.method = "GET"
        /\ \A k \in 1..Len(routes) : routes[k].method # "HEAD"
        /\ Len(Calls(d)) = 1

\* the handler's first declared parameter is *web.Context
ContextAware(handler) ==
    /\ Len(HandlerTypes[handler].in) > 0
    /\ HandlerTypes[handler].in[1] = Ty("ptr", "web.Context")

\* the capture groups of the match, left to right, each a string value
CaptureArgs(d) ==
    [k \in 1..(Len(disp[d].match) - 1) |-> StrVal(disp[d].match[k + 1])]

\* C4: a context-aware handler is passed the Context of this request as
\* argument 0, then every capture group of the match (the whole match
\* excluded) left to right, each a string; nothing else.
C4_ContextAwareArgs ==
    \A d \in Disp :
        (disp[d].sel # 0 /\ ContextAware(disp[d].route.handler)) =>
            /\ disp[d].args = <<CtxRef(d)>> \o CaptureArgs(d)
            /\ Len(disp[d].args) = 1 + disp[d].route.cr.n
            /\ (disp[d].route.r = "/(.)(.+)" /\ disp[d].path = <<"/", "a", "b">>)
                  => disp[d].args =
                        <<CtxRef(d), StrVal(<<"a">>), StrVal(<<"b">>)>>

\* "/(.)(.+)" with a context-aware handler, /ab: the handler ran with the
\* Context, "a" and "b"
C4_Witness ==
    \E d \in Disp :
        /\ disp[d].pc = "done" /\ disp[d].outcome = "written"
        /\ disp[d].route.r = "/(.)(.+)" /\ disp[d].route.handler = "hCtx"
        /\ disp[d].path = <<"/", "a", "b">>
        /\ disp[d].args = <<CtxRef(d), StrVal(<<"a">>), StrVal(<<"b">>)>>
        /\ Len(Calls(d)) = 1 /\ Calls(d)[1].n = 1

IsDispatcherWrite(e) == e.op = "Write" /\ e.by = "dispatcher"
DispatcherWrites(d) == SelectSeq(disp[d].conn.trace, IsDispatcherWrite)

IsWriteError(e) == e.op = "Log" /\ e.name = "Error during write"
WriteFailed(d) == SelectSeq(disp[d].conn.trace, IsWriteError) # <<>>

\* C5: a handler that is not context-aware is passed exactly the capture
\* groups of the match, left to right, each a string, and no Context; so
\* "/(.*)" with a handler that returns its argument answers GET /a with the
\* body "a".
C5_PlainArgs ==
    \A d \in Disp :
        (disp[d].sel # 0 /\ ~ContextAware(disp[d].route.handler)) =>
            /\ disp[d].args = CaptureArgs(d)
            /\ \A k \in 1..Len(disp[d].args) : disp[d].args[k].kind = "string"
            /\ Len(disp[d].args) = disp[d].route.cr.n
            /\ (/\ disp[d].pc = "done"
                /\ disp[d].route.r = "/(.*)" /\ ReqMethod(d) = "GET"
                /\ disp[d].path = <<"/", "a">>
                /\ disp[d].ret = <<StrVal(Echo(disp[d].args))>>)
                  => /\ disp[d].args = <<StrVal(<<"a">>)>>
                     /\ DispatcherWrites(d)[1].data = <<97>>
                     /\ Len(DispatcherWrites(d)) = 1
                     /\ ~WriteFailed(d) => disp[d].conn.body = <<97>>

\* GET /a on "/(.*)" with the echoing plain handler: the body is "a"
C5_Witness ==
    \E d \in Disp :
        /\ disp[d].pc = "done" /\ disp[d].outcome = "written"
        /\ disp[d].route.r = "/(.*)" /\ disp[d].route.handler = "hPlain"
        /\ ReqMethod(d) = "GET" /\ disp[d].path = <<"/", "a">>
        /\ disp[d].args = <<StrVal(<<"a">>)>>
        /\ disp[d].ret = <<StrVal(<<"a">>)>>
        /\ disp[d].conn.body = <<97>>

\* what the dispatcher itself did after it entered the handler call
DispatcherAfterCall(d) ==
    LET tr == disp[d].conn.trace
        at == CHOOSE i \in 1..Len(tr) : tr[i].op = "Call"
        IsDispatcher(e) == e.by = "dispatcher"
    IN  SelectSeq(SubSeq(tr, at + 1, Len(tr)), IsDispatcher)

IsHandlerEvent(e) == e.by = "handler"
HandlerEvents(d) == SelectSeq(disp[d].conn.trace, IsHandlerEvent)

\* the handler of dispatch d panicked and the panic was recovered
ContainedFault(d) ==
    /\ disp[d].pc = "done"
    /\ disp[d].beh.end = "panic"
    /\ Config.RecoverPanic

\* the result of a contained fault: safelyCall gave no result and an error,
\* routeHandler logged the crash, called Abort(500, "Server Error") and
\* returned normally; if the handler had not begun the response, the
\* response has status 500 and (unless the request is HEAD) the body
\* "Server Error"
C6_Faulted ==
    \A d \in Disp : ContainedFault(d) =>
        /\ disp[d].ret = <<>>
        /\ disp[d].err # ""
        /\ disp[d].outcome = "abort500"
        /\ DispatcherAfterCall(d) =
              << Ev("Log", "dispatcher", "Handler crashed with error", <<>>, 0, <<>>),
                 Ev("WriteHeader", "dispatcher", "", <<>>, 500, <<>>),
                 Ev("Write", "dispatcher", "", <<>>, 0, Bytes(ServerErrorText)) >>
        /\ HandlerEvents(d) = <<>> =>
              /\ disp[d].conn.status = 500
              /\ ReqMethod(d) # "HEAD" =>
                    disp[d].conn.body =
                        <<83, 101, 114, 118, 101, 114, 32, 69, 114, 114, 111, 114>>

\* the step after a contained fault: the dispatch ends, and the server is
\* in the state it was in before the request arrived (same route table,
\* same configuration, no dispatch in flight)
C6_NextStep ==
    \A d \in Disp : ContainedFault(d) =>
        /\ disp'[d] = Idle
        /\ routes' = routes
        /\ Config' = Config
        /\ regexLog' = regexLog

\* no step of a dispatch changes the route table or the configuration
C6_DispatchFrame ==
    (\E d \in Disp : disp[d].pc # "idle") =>
        /\ routes' = routes
        /\ Config' = Config
        /\ regexLog' = regexLog

\* C6: with RecoverPanic on, a handler's panic is swallowed by safelyCall
\* (nil result, non-nil error); routeHandler answers with the 500 "Server
\* Error" abort and returns normally; afterwards the server is exactly as
\* it was before the request, so later requests are dispatched as if the
\* faulting one had never happened.
C6_ContainedPanic ==
    /\ []C6_Faulted
    /\ [][C6_NextStep /\ C6_DispatchFrame]_vars

\* a handler panicked with RecoverPanic on and the response is the 500
\* "Server Error" abort, while the route table still holds its routes
C6_Witness ==
    \E d \in Disp :
        /\ ContainedFault(d)
        /\ disp[d].outcome = "abort500"
        /\ disp[d].conn.status = 500
        /\ disp[d].conn.body = Bytes(ServerErrorText)
        /\ Len(routes) = 2

\* the handler of dispatch d returned a text as its first return value
ReturnedText(d) ==
    /\ disp[d].pc = "done"
    /\ disp[d].beh.end = "return"
    /\ disp[d].beh.ret # <<>>
    /\ disp[d].beh.ret[1].kind = "string"

\* C7: when the handler returns a text, routeHandler sets Content-Length to
\* the text's length in bytes (not in characters) and then writes the
\* text's UTF-8 bytes to the response, in that order and once.
C7_TextResponse ==
    \A d \in Disp : ReturnedText(d) =>
        LET text == disp[d].beh.ret[1].s
            after == DispatcherAfterCall(d)
        IN  /\ disp[d].outcome = "written"
            /\ Len(after) >= 2
            /\ after[1] = Ev("SetHeader", "dispatcher", "Content-Length",
                             Itoa(Len(Bytes(text))), 0, <<>>)
            /\ after[2] = Ev("Write", "dispatcher", "", <<>>, 0, Bytes(text))
            /\ Len(DispatcherWrites(d)) = 1
            /\ disp[d].conn.headers["Content-Length"] = Itoa(Len(Bytes(text)))
            /\ text = <<"h", "é">> =>
                  /\ after[1].val = <<"3">>
                  /\ after[2].data = <<104, 195, 169>>
            /\ (HandlerEvents(d) = <<>> /\ ~WriteFailed(d)) =>
                  /\ disp[d].conn.body = Bytes(text)
                  /\ disp[d].conn.sent["Content-Length"] = Itoa(Len(Bytes(text)))

\* the handler returned the two characters "hé": Content-Length is 3 and
\* the three bytes are the body
C7_Witness ==
    \E d \in Disp :
        /\ ReturnedText(d)
        /\ disp[d].beh.ret[1].s = <<"h", "é">>
        /\ disp[d].conn.sent["Content-Length"] = <<"3">>
        /\ disp[d].conn.body = <<104, 195, 169>>

\* a static-file attempt of dispatch d served a file
IsServed(e) == e.op = "tryServingFile" /\ e.n = 1
ServedFile(d) == SelectSeq(disp[d].conn.trace, IsServed) # <<>>

\* the last n events of the trace of d
LastEvents(d, n) ==
    SubSeq(disp[d].conn.trace, Len(disp[d].conn.trace) - n + 1,
           Len(disp[d].conn.trace))

\* C8: a request for which no route is selected and no static or index
\* file is served invokes no handler and ends with the 404 abort: status
\* 404 and the body "Page not found".
C8_NotFound ==
    \A d \in Disp :
        (disp[d].pc = "done" /\ disp[d].sel = 0 /\ ~ServedFile(d)) =>
            /\ disp[d].outcome = "abort404"
            /\ Calls(d) = <<>>
            /\ disp[d].conn.status = 404
            /\ LastEvents(d, 2) =
                  << Ev("WriteHeader", "dispatcher", "", <<>>, 404, <<>>),
                     Ev("Write", "dispatcher", "", <<>>, 0,
                        <<80, 97, 103, 101, 32, 110, 111, 116, 32,
                          102, 111, 117, 110, 100>>) >>
            /\ ReqMethod(d) # "HEAD" =>
                  disp[d].conn.body =
                      <<80, 97, 103, 101, 32, 110, 111, 116, 32,
                        102, 111, 117, 110, 100>>

\* an empty route table, no static file: GET gives 404 "Page not found"
C8_Witness ==
    \E d \in Disp :
        /\ disp[d].pc = "done"
        /\ routes = <<>>
        /\ ReqMethod(d) = "GET"
        /\ ~ServedFile(d)
        /\ disp[d].conn.status = 404
        /\ disp[d].conn.body = Bytes(NotFoundText)

RouteMethods == {"GET", "POST", "PUT", "DELETE", "HEAD"}

\* every route of the table holds a pattern that compiled
C9_TableCompiled ==
    \A k \in 1..Len(routes) :
        /\ ~Compile(routes[k].r).err
        /\ routes[k].cr = Compile(routes[k].r).cr

\* a registration with a pattern that does not compile changes nothing but
\* the log, to which it adds the pattern
C9_FailedStep ==
    \A r \in Patterns, method \in RouteMethods, handler \in HandlerArgs :
        (Compile(r).err /\ addRoute(r, method, handler)) =>
            /\ routes' = routes
            /\ regexLog' = regexLog \cup {r}
            /\ Config' = Config
            /\ disp' = disp

\* after a failed registration a registration with a good pattern is
\* stored as ever
C9_LaterStep ==
    \A r \in Patterns, method \in RouteMethods, handler \in HandlerArgs :
        (regexLog # {} /\ ~Compile(r).err /\ addRoute(r, method, handler)) =>
            /\ Len(routes') = Len(routes) + 1
            /\ routes'[Len(routes')].r = r
            /\ regexLog' = regexLog

\* C9: registering a pattern that does not compile leaves the route table
\* as it was, logs the failure and returns; later registrations succeed
\* and the table, which is all a dispatch reads, never holds the failed
\* route.
C9_InvalidPattern ==
    /\ []C9_TableCompiled
    /\ [][C9_FailedStep /\ C9_LaterStep]_vars

\* "(" was registered in vain, two routes are in the table and a request
\* has been served by one of them
C9_Witness ==
    \E d \in Disp :
        /\ regexLog = {"("}
        /\ Len(routes) = 2
        /\ disp[d].pc = "done" /\ disp[d].outcome = "written"

Last(seq) == seq[Len(seq)]

\* the step appended one route built from one of the given inputs
Appended(rs, method, hs) ==
    \E r \in {x \in rs : x \in DOMAIN Compiled}, handler \in hs :
        routes' = Append(routes,
            [r |-> r, cr |-> Compiled[r], method |-> method, handler |-> handler])

\* a step that changes the route table appends one route and keeps every
\* earlier route at its index
C10_AppendOnly ==
    routes' # routes =>
        /\ Len(routes') = Len(routes) + 1
        /\ \A k \in 1..Len(routes) : routes'[k] = routes[k]
        /\ UNCHANGED <<regexLog, Config, disp>>

\* each registration function stores its own method, the pattern and the
\* handler it was given
C10_Methods ==
    /\ Get => routes' = routes \/ Appended(Patterns, "GET", Handlers)
    /\ Post => routes' = routes \/ Appended(Patterns, "POST", Handlers)
    /\ Put => routes' = routes \/ Appended(Patterns, "PUT", Handlers)
    /\ Delete => routes' = routes \/ Appended(Patterns, "DELETE", Handlers)
    /\ Match => routes' = routes
                  \/ \E method \in MatchMethods :
                        Appended(Patterns, method, Handlers)

AbortedThenReturned(d) ==
    /\ disp[d].pc = "done"
    /\ disp[d].beh.pre = "abort"
    /\ disp[d].beh.end = "return"

\* C11: once the handler has called Context.Abort, its return value is not
\* written: the dispatcher writes nothing after the call, and the body is
\* what had been written up to and including the Abort, whatever the
\* handler returns.
C11_AbortSuppressesReturn ==
    \A d \in Disp : AbortedThenReturned(d) =>
        /\ DispatcherWrites(d) = <<>>
        /\ disp[d].conn.status = 403
        /\ ReqMethod(d) # "HEAD" => disp[d].conn.body = <<120>>

\* what the code does with a return value after Abort: routeHandler does
\* not know of the Abort; it sets Content-Length (too late to be sent) and
\* writes the return value after the body of the Abort
C11_ReturnWrittenAfterAbort ==
    \A d \in Disp :
        (AbortedThenReturned(d) /\ disp[d].beh.ret # <<>>) =>
            /\ disp[d].outcome = "written"
            /\ Len(DispatcherWrites(d)) = 1
            /\ DispatcherWrites(d)[1].data = Coerce(disp[d].beh.ret[1])
            /\ disp[d].conn.status = 403
            /\ disp[d].conn.sent["Content-Length"] = <<>>
            /\ (ReqMethod(d) # "HEAD" /\ ~WriteFailed(d)) =>
                  disp[d].conn.body = <<120>> \o Coerce(disp[d].beh.ret[1])

\* GET /a, the handler aborts with 403 "x" and returns "a": the body is "xa"
C11_Witness ==
    \E d \in Disp :
        /\ AbortedThenReturned(d)
        /\ disp[d].beh.ret = <<StrVal(<<"a">>)>>
        /\ disp[d].conn.status = 403
        /\ disp[d].conn.body = <<120, 97>>

\* the handler of dispatch d panicked and RecoverPanic is off
UncontainedFault(d) ==
    /\ disp[d].pc = "done"
    /\ disp[d].beh.end = "panic"
    /\ ~Config.RecoverPanic

\* C12: with RecoverPanic off a handler's panic leaves safelyCall and
\* routeHandler as a panic: after the call the dispatcher logs nothing,
\* calls neither WriteHeader nor Write, sets no Content-Length; there is no
\* 500 "Server Error" abort, and a response the handler had not begun is
\* not begun by the dispatcher.
C12_UncontainedPanic ==
    \A d \in Disp : UncontainedFault(d) =>
        /\ disp[d].outcome = "panic"
        /\ DispatcherAfterCall(d) = <<>>
        /\ DispatcherWrites(d) = <<>>
        /\ disp[d].conn.headers["Content-Length"] = <<>>
        /\ disp[d].conn.status # 500
        /\ HandlerEvents(d) = <<>> =>
              /\ ~disp[d].conn.wroteHeaders
              /\ disp[d].conn.body = <<>>

\* a handler panicked with RecoverPanic off: the dispatch ended in the
\* panic and the response was never begun
C12_Witness ==
    \E d \in Disp :
        /\ UncontainedFault(d)
        /\ disp[d].outcome = "panic"
        /\ Len(Calls(d)) = 1
        /\ ~disp[d].conn.wroteHeaders
        /\ disp[d].conn.body = <<>>

\* the Call event of the handler of the selected route of d
SelectedCall(d) ==
    Ev("Call", "dispatcher", routes[disp[d].sel].handler, <<>>, 1, <<>>)

\* in every state of a dispatch at most one handler call has been made:
\* none before the selected route's handler is called, none when no route
\* is selected, exactly the selected route's when the dispatch is over
C13_AtMostOnce ==
    \A d \in Disp :
        /\ Len(Calls(d)) <= 1
        /\ disp[d].pc = "call" => Calls(d) = <<>>
        /\ disp[d].sel = 0 => Calls(d) = <<>>
        /\ (disp[d].pc = "done" /\ disp[d].sel # 0) =>
              Calls(d) = <<SelectedCall(d)>>

\* once the handler has returned or faulted the dispatch takes no further
\* step but its end: no second call, no further scan
C13_NoSecondCall ==
    \A d \in Disp :
        /\ disp[d].pc = "call" => disp'[d].pc \in {"call", "done"}
        /\ disp[d].pc = "done" => (disp'[d] = disp[d] \/ disp'[d] = Idle)

ReturnedNothing(d) ==
    /\ disp[d].pc = "done"
    /\ disp[d].beh.end = "return"
    /\ disp[d].beh.ret = <<>>

IsAbort404(e) == e.op = "WriteHeader" /\ e.by = "dispatcher" /\ e.n = 404
IsAbort500(e) == e.op = "WriteHeader" /\ e.by = "dispatcher" /\ e.n = 500

\* the terminal outcomes of a dispatch, read from what it did
FileServed(d) == ServedFile(d)
NotFoundAbort(d) == SelectSeq(disp[d].conn.trace, IsAbort404) # <<>>
ServerErrorAbort(d) == SelectSeq(disp[d].conn.trace, IsAbort500) # <<>>
UncontainedPanic(d) == Calls(d) # <<>> /\ disp[d].outcome = "panic"
HandlerResponse(d) ==
    Calls(d) # <<>> /\ disp[d].err = "" /\ disp[d].outcome # "panic"

\* how many of the terminal outcomes dispatch d has
Outcomes(d) ==
      (IF FileServed(d) THEN 1 ELSE 0)
    + (IF NotFoundAbort(d) THEN 1 ELSE 0)
    + (IF ServerErrorAbort(d) THEN 1 ELSE 0)
    + (IF UncontainedPanic(d) THEN 1 ELSE 0)
    + (IF HandlerResponse(d) THEN 1 ELSE 0)

\* a dispatch that is over has exactly one terminal outcome; one that
\* waits for its handler has none yet; the scan stopped within the table
C15_OneOutcome ==
    \A d \in Disp :
        /\ disp[d].pc = "done" => Outcomes(d) = 1
        /\ disp[d].pc = "call" => Outcomes(d) = 0
        /\ disp[d].sel \in 0..Len(routes)
        /\ Len(Calls(d)) <= 1

\* a dispatch that is over does nothing more to its response
C15_NothingAfter ==
    \A d \in Disp :
        (disp[d].pc = "done" /\ disp'[d].pc # "idle") =>
            disp'[d].conn = disp[d].conn

\* a dispatch that has called its handler comes to its end
C15_Completes == \A d \in Disp : (disp[d].pc = "call") ~> (disp[d].pc = "done")

\* C15: every dispatch runs to completion. A request is taken to the call
\* of the selected handler or to its end in one pass over the route table;
\* provided the handler and the transport return, the dispatch then reaches
\* its end with exactly one terminal outcome (file served, handler
\* response, 404 abort, 500 abort, uncontained panic) and does nothing to
\* the response afterwards.
C15_Termination ==
    /\ []C15_OneOutcome
    /\ [][C15_NothingAfter]_vars
    /\ C15_Completes

\* a dispatch with a full table of routes that do not serve the request
\* ended in the 404 abort and nothing else
C15_Witness ==
    \E d \in Disp :
        /\ disp[d].pc = "done"
        /\ Len(routes) = MaxRoutes
        /\ disp[d].sel = 0
        /\ NotFoundAbort(d)
        /\ Outcomes(d) = 1

\* what the handler of d did through a Context, as its behaviour says
OwnHandlerEvents(d) ==
    IF disp[d].beh.pre = "write"
    THEN <<Ev("Write", "handler", "", <<>>, 0, <<120>>)>>
    ELSE IF disp[d].beh.pre = "abort"
    THEN <<Ev("WriteHeader", "handler", "", <<>>, 403, <<>>),
           Ev("Write", "handler", "", <<>>, 0, <<120>>)>>
    ELSE <<>>

\* every dispatch in flight has the Params of its own request; its handler
\* is handed a pointer to its own Context and reads its own Params through
\* it; the handler events in its response are those of its own handler
C16_OwnContext ==
    \A d \in DOMAIN disp :
        /\ disp[d].pc # "idle" =>
              disp[d].params = [k \in {"k"} |-> IF d = "d1" THEN "1" ELSE "2"]
        /\ \A k \in 1..Len(disp[d].args) :
              disp[d].args[k].kind = "ptr" => disp[d].args[k].ref = d
        /\ (disp[d].pc = "done" /\ Calls(d) # <<>>) =>
              disp[d].seen = disp[d].params
        /\ HandlerEvents(d) = OwnHandlerEvents(d)

\* a step changes the Context, Params and response of one dispatch only
C16_OneDispatchPerStep ==
    \A d, e \in DOMAIN disp :
        (d # e /\ disp'[d] # disp[d]) => disp'[e] = disp[e]

\* C16: under any interleaving of two dispatches each has its own Context
\* with its own Params, the Context its handler gets is its own, and no
\* step of one dispatch reads or changes the Context of the other.
C16_ContextOwnership ==
    /\ []C16_OwnContext
    /\ [][C16_OneDispatchPerStep]_vars

\* two dispatches in flight at once: the handler of d2 has written "x"
\* through its Context and returned "a" while d1 still waits for its
\* handler; d1's response is untouched and each has its own Params
C16_Witness ==
    /\ DOMAIN disp = Disp2
    /\ disp["d1"].pc = "call"
    /\ disp["d2"].pc = "done" /\ disp["d2"].beh.pre = "write"
    /\ disp["d2"].ret = <<StrVal(<<"a">>)>>
    /\ disp["d2"].conn.body = <<120, 97>>
    /\ disp["d1"].conn.body = <<>>
    /\ disp["d1"].params = [k \in {"k"} |-> "1"]
    /\ disp["d2"].seen = [k \in {"k"} |-> "2"]

\* a step keeps every route of the table: same index, pattern, compiled
\* pattern, method and handler; the table gets no shorter; a step of a
\* dispatch and a failed registration leave the table as it is
C17_Step ==
    /\ Len(routes') >= Len(routes)
    /\ \A k \in 1..Len(routes) :
          /\ routes'[k].r = routes[k].r
          /\ routes'[k].cr = routes[k].cr
          /\ routes'[k].method = routes[k].method
          /\ routes'[k].handler = routes[k].handler
    /\ disp' # disp => routes' = routes
    /\ regexLog' # regexLog => routes' = routes

\* C17: the route table only grows. Across registrations, successful or
\* failed, and dispatches, whatever their outcome, every route once in the
\* table stays at its index with its pattern, method and handler.
C17_TableOnlyGrows == [][C17_Step]_vars

\* after a failed registration, two successful ones for the same pattern
\* and method with different handlers, and a dispatch that ended in a
\* contained fault, both routes are in the table
C17_Witness ==
    \E d \in Disp :
        /\ regexLog # {}
        /\ Len(routes) = 2
        /\ routes[1].r = routes[2].r /\ routes[1].method = routes[2].method
        /\ routes[1].handler # routes[2].handler
        /\ disp[d].pc = "done" /\ disp[d].outcome = "abort500"

\* C18: matching is an anchored full-string match. Every route whose
\* method serves the request and whose pattern can match the entire path
\* counts as matching: it is selected unless an earlier route was, also
\* when the match the pattern finds first is a shorter prefix, as for
\* "/a|/ab" on /ab.
C18_AnchoredMatch ==
    \A d \in Disp : Scanned(d) =>
        \A k \in 1..Len(routes) :
            (MethodAllows(ReqMethod(d), k)
                /\ CanMatchWhole(routes[k].cr, disp[d].path))
            => disp[d].sel \in 1..k

\* what the code does: a route is taken when the match the pattern finds
\* first (leftmost, first alternative first) is the whole path, and only
\* then; "/a|/ab" finds "/a" in /ab and is passed over
C18_FirstFoundMatch ==
    \A d \in Disp : Scanned(d) =>
        /\ disp[d].sel # 0 <=>
              \E k \in 1..Len(routes) :
                  /\ MethodAllows(ReqMethod(d), k)
                  /\ FindsWholePath(routes[k].cr, disp[d].path)
        /\ (routes[1].r = "/a|/ab" /\ disp[d].path = <<"/", "a", "b">>) =>
              /\ FindStringSubmatch(routes[1].cr, disp[d].path) = << <<"/", "a">> >>
              /\ disp[d].sel = 0

\* GET /ab with the only route GET "/a|/ab": the pattern can match all of
\* /ab, no route is selected and the answer is the 404 abort
C18_Witness ==
    \E d \in Disp :
        /\ disp[d].pc = "done"
        /\ routes[1].r = "/a|/ab"
        /\ ReqMethod(d) = "GET" /\ disp[d].path = <<"/", "a", "b">>
        /\ CanMatchWhole(routes[1].cr, disp[d].path)
        /\ disp[d].sel = 0
        /\ disp[d].outcome = "abort404"

\* route k passes both tests of the scan for the request of d
PassesBoth(d, k) ==
    /\ MethodAllows(ReqMethod(d), k)
    /\ FindsWholePath(routes[k].cr, disp[d].path)

\* C19: the scan passes over every route that fails the method test or the
\* full-path test, invoking nothing, and goes on: the selected route is the
\* lowest-index route that passes both, whatever the routes before it
\* pass; no route is selected only if none passes both; the only handler
\* ever called is the selected route's.
C19_ScanSkips ==
    \A d \in Disp : Scanned(d) =>
        /\ disp[d].sel # 0 =>
              /\ PassesBoth(d, disp[d].sel)
              /\ \A j \in 1..(disp[d].sel - 1) : ~PassesBoth(d, j)
        /\ disp[d].sel = 0 => \A k \in 1..Len(routes) : ~PassesBoth(d, k)
        /\ \A i \in 1..Len(Calls(d)) :
              /\ disp[d].sel # 0
              /\ Calls(d)[i].name = routes[disp[d].sel].handler

\* the first route passes the method test but not the pattern test, the
\* second passes both: the second is selected and only its handler called
C19_Witness ==
    \E d \in Disp :
        /\ disp[d].pc = "done"
        /\ Len(routes) = 2
        /\ MethodAllows(ReqMethod(d), 1)
        /\ ~FindsWholePath(routes[1].cr, disp[d].path)
        /\ routes[1].handler # routes[2].handler
        /\ disp[d].sel = 2
        /\ Len(Calls(d)) = 1 /\ Calls(d)[1].name = routes[2].handler

\* the declared parameter list starts with a pointer to the Context type
FirstIsContextPointer(fn) ==
    /\ Len(HandlerTypes[fn].in) >= 1
    /\ HandlerTypes[fn].in[1].kind = "ptr"
    /\ HandlerTypes[fn].in[1].elem = "web.Context"

\* C20: requiresContext is true exactly for a handler with at least one
\* parameter whose first parameter is a pointer to the Context type; it is
\* false for a handler without parameters, with a Context by value, with
\* a pointer to another type or with an interface first, and the argument
\* list of such a handler holds the captures only, no Context.
C20_RequiresContext ==
    \A d \in Disp : disp[d].sel # 0 =>
        LET fn == disp[d].route.handler IN
        /\ requiresContext(HandlerTypes[fn]) <=> FirstIsContextPointer(fn)
        /\ requiresContext(HandlerTypes[fn]) <=> fn \in {"hCtx", "hSetType"}
        /\ fn \in {"hNone", "hVal", "hPtrOther", "hIface", "hPlain"} =>
              /\ disp[d].args = CaptureArgs(d)
              /\ \A k \in 1..Len(disp[d].args) : disp[d].args[k].kind # "ptr"
        /\ fn \in {"hCtx", "hSetType"} =>
              /\ disp[d].args # <<>>
              /\ disp[d].args[1] = CtxRef(d)

\* a route whose handler takes a pointer to another type was selected for
\* /a and its handler called with the capture alone
C20_Witness ==
    \E d \in Disp :
        /\ disp[d].pc = "done"
        /\ disp[d].route.handler = "hPtrOther"
        /\ disp[d].route.r = "/(.*)"
        /\ disp[d].args = <<StrVal(<<"a">>)>>
        /\ Len(Calls(d)) = 1

\* dispatch d selected a route whose handler is a function, RecoverPanic is
\* on, and the dispatch is over
CalledWithRecover(d) ==
    /\ disp[d].pc = "done"
    /\ disp[d].sel # 0
    /\ HandlerKind(disp[d].route.handler) = "func"
    /\ Config.RecoverPanic

\* how many arguments come before the captures
ContextCount(d) == IF ContextAware(disp[d].route.handler) THEN 1 ELSE 0

\* the misfit as the claim words it: the number of declared parameters is
\* not (optional Context + number of capture groups), or a parameter for a
\* capture is not of type string
DeclaredMisfit(d) ==
    LET ht == HandlerTypes[disp[d].route.handler] IN
    \/ Len(ht.in) # ContextCount(d) + disp[d].route.cr.n
    \/ \E k \in (ContextCount(d) + 1)..Len(ht.in) : ht.in[k] # Ty("string", "")

\* C21 as worded: with RecoverPanic on, a handler whose declared parameters
\* are not (optional Context + one string per capture group) gives a
\* contained fault: its body does not run and the response is the 500
\* abort (also for a handler that would not panic if it ran).
C21_DeclaredMisfitFaults ==
    \A d \in Disp :
        (CalledWithRecover(d) /\ DeclaredMisfit(d)
            /\ disp[d].beh.end = "return") =>
            /\ Calls(d)[1].n = 0
            /\ disp[d].outcome = "abort500"

\* the type of the parameter that takes argument p of a call
ParamFor(ht, p) ==
    IF ht.variadic /\ p >= Len(ht.in) THEN Ty(ht.in[Len(ht.in)].elem, "")
    ELSE ht.in[p]

\* the assembled arguments are not accepted by the call: a handler that
\* is not variadic has a number of parameters other than (optional Context
\* + capture groups), a variadic one has more fixed parameters than there
\* are arguments, or a capture goes to a parameter whose type takes no
\* string (string and interface{} take one)
ArgMisfit(d) ==
    LET ht == HandlerTypes[disp[d].route.handler]
        n == ContextCount(d) + disp[d].route.cr.n
    IN  IF ht.variadic THEN
            \/ n < Len(ht.in) - 1
            \/ \E p \in (ContextCount(d) + 1)..n :
                  ParamFor(ht, p) \notin {Ty("string", ""), Ty("interface", "")}
        ELSE
            \/ n # Len(ht.in)
            \/ \E p \in (ContextCount(d) + 1)..n :
                  ParamFor(ht, p) \notin {Ty("string", ""), Ty("interface", "")}

\* C21 amended: with RecoverPanic on, a handler whose parameters do not
\* accept the assembled arguments gives a contained fault: the call is
\* refused, the handler's body does not run, the dispatcher logs the crash
\* and answers 500 "Server Error", and routeHandler returns normally; a
\* handler whose parameters accept them is entered.
C21_ArgumentMismatch ==
    \A d \in Disp : CalledWithRecover(d) =>
        /\ ArgMisfit(d) =>
              /\ Calls(d) = <<Ev("Call", "dispatcher", disp[d].route.handler,
                                 <<>>, 0, <<>>)>>
              /\ HandlerEvents(d) = <<>>
              /\ disp[d].ret = <<>>
              /\ disp[d].outcome = "abort500"
              /\ DispatcherAfterCall(d) =
                    << Ev("Log", "dispatcher", "Handler crashed with error",
                          <<>>, 0, <<>>),
                       Ev("WriteHeader", "dispatcher", "", <<>>, 500, <<>>),
                       Ev("Write", "dispatcher", "", <<>>, 0,
                          <<83, 101, 114, 118, 101, 114, 32,
                            69, 114, 114, 111, 114>>) >>
              /\ disp[d].conn.status = 500
              /\ disp[d].conn.body =
                    IF ReqMethod(d) = "HEAD" THEN <<>>
                    ELSE <<83, 101, 114, 118, 101, 114, 32, 69, 114, 114, 111, 114>>
        /\ ~ArgMisfit(d) => Calls(d)[1].n = 1

\* func(n int) string on "/(.*)", GET /a: one parameter for one capture,
\* of a type that takes no string; the call is refused and the answer is
\* 500 "Server Error"
C21_Witness ==
    \E d \in Disp :
        /\ CalledWithRecover(d)
        /\ disp[d].route.handler = "hIntArg" /\ disp[d].route.r = "/(.*)"
        /\ ReqMethod(d) = "GET" /\ disp[d].path = <<"/", "a">>
        /\ disp[d].args = <<StrVal(<<"a">>)>>
        /\ Calls(d)[1].n = 0
        /\ disp[d].conn.status = 500
        /\ disp[d].conn.body = Bytes(ServerErrorText)

\* dispatch d selected a route whose stored handler is not a function
SelectedNonFunction(d) ==
    /\ disp[d].pc = "done"
    /\ disp[d].sel # 0
    /\ HandlerKind(disp[d].route.handler) # "func"

\* C22: with RecoverPanic on, a fault caused by the shape of a registered
\* handler is contained at dispatch time: when the selected route's handler
\* value is not a function (nil, a string) the request ends in the 500
\* "Server Error" abort and no panic leaves routeHandler.
C22_ShapeFaultContained ==
    \A d \in Disp : (SelectedNonFunction(d) /\ Config.RecoverPanic) =>
        /\ disp[d].outcome = "abort500"
        /\ disp[d].conn.status = 500

\* what the code does: the panic is raised by route.handler.Type() or by
\* NumIn() in requiresContext, before safelyCall and outside its recover;
\* it leaves routeHandler whatever RecoverPanic says, nothing is called and
\* nothing is written
C22_ShapePanicEscapes ==
    \A d \in Disp : SelectedNonFunction(d) =>
        /\ disp[d].outcome = "panic"
        /\ Calls(d) = <<>>
        /\ DispatcherWrites(d) = <<>>
        /\ ~disp[d].conn.wroteHeaders
        /\ disp[d].conn.body = <<>>

\* the only route is GET "/a" with a nil handler, RecoverPanic is on, GET
\* /a: the dispatch ended in a panic and no response was begun
C22_Witness ==
    \E d \in Disp :
        /\ SelectedNonFunction(d)
        /\ Config.RecoverPanic
        /\ disp[d].route.handler = "vNil" /\ disp[d].route.r = "/a"
        /\ ReqMethod(d) = "GET"
        /\ disp[d].outcome = "panic"
        /\ ~disp[d].conn.wroteHeaders

(***************************************************************************)
(* C23: coercion of a first return value that is no text.                  *)
(***************************************************************************)
\* the handler of dispatch d returned, and its first value is no text
ReturnedNonText(d) ==
    /\ disp[d].pc = "done"
    /\ Calls(d) # <<>>
    /\ disp[d].err = ""
    /\ disp[d].ret # <<>>
    /\ disp[d].ret[1].kind # "string"

\* the dispatcher's answer to the return value: Content-Length, then one
\* Write of the payload
Answered(d, payload) ==
    /\ disp[d].conn.headers["Content-Length"] = Itoa(Len(payload))
    /\ Len(DispatcherWrites(d)) = 1
    /\ DispatcherWrites(d)[1].data = payload
    /\ disp[d].outcome = "written"
    /\ ~ServerErrorAbort(d)
    /\ ~NotFoundAbort(d)

\* C23: a first return value that is a byte slice is written unchanged with
\* Content-Length its length; a first return value of any other shape that
\* is no text gives an empty payload, Content-Length "0" and a zero-byte
\* write, with no fault and no error status; later return values are not
\* looked at.
C23_NonTextCoercion ==
    \A d \in Disp : ReturnedNonText(d) =>
        IF disp[d].ret[1].kind \in {"bytes", "namedbytes"}
        THEN Answered(d, disp[d].ret[1].b)
        ELSE Answered(d, <<>>)

\* C23, as the code has it: the same, for a byte slice of type []byte; a
\* byte slice of a declared type makes the dispatcher panic before it sets
\* Content-Length or writes, and nothing recovers that panic.
C23_ByteSliceTypeOnly ==
    \A d \in Disp : ReturnedNonText(d) =>
        /\ disp[d].ret[1].kind = "bytes"
              => /\ Answered(d, disp[d].ret[1].b)
                 /\ (disp[d].route.handler = "hRetBytes"
                        => /\ disp[d].conn.headers["Content-Length"] = <<"2">>
                           /\ DispatcherWrites(d)[1].data = <<255, 0>>)
        /\ disp[d].ret[1].kind = "namedbytes"
              => /\ disp[d].outcome = "panic"
                 /\ DispatcherWrites(d) = <<>>
                 /\ disp[d].conn.headers["Content-Length"] = <<>>
                 /\ ~disp[d].conn.wroteHeaders
        /\ disp[d].ret[1].kind \notin {"bytes", "namedbytes"}
              => /\ Answered(d, <<>>)
                 /\ disp[d].conn.headers["Content-Length"] = <<"0">>
                 /\ disp[d].conn.status = 200
                 /\ disp[d].conn.body = <<>>

C23_Witness ==
    \E d \in Disp :
        /\ ReturnedNonText(d)
        /\ disp[d].route.handler = "hRetBytes"
        /\ disp[d].conn.method = "GET"
        /\ disp[d].conn.body = <<255, 0>>
        /\ disp[d].conn.headers["Content-Length"] = <<"2">>

(***************************************************************************)
(* C24, C25: the static-file attempt and the index fallback.               *)
(***************************************************************************)
IsPathAttempt(e) == e.op = "tryServingFile" /\ e.name = ""
PathAttempts(d) == SelectSeq(disp[d].conn.trace, IsPathAttempt)

IsIndexAttempt(e) == e.op = "tryServingFile" /\ e.name # ""
IndexAttempts(d) == SelectSeq(disp[d].conn.trace, IsIndexAttempt)

IsContentType(e) == e.op = "SetHeader" /\ e.name = "Content-Type"

\* the file named by the request path was served to d
PathFileServed(d) ==
    PathAttempts(d) # <<>> /\ PathAttempts(d)[1].n = 1

\* C24: the file named by the request path is looked for only when the
\* method is GET or HEAD, once, after Server and Date are set and before the
\* default Content-Type, the scan and any call. When it is served the
\* dispatch is over: no route is selected, no handler called, Content-Type
\* not defaulted, no 404 and nothing written by the dispatcher, even when a
\* route of the table serves the request. Other methods make no lookup.
C24_StaticFirst ==
    \A d \in Disp : disp[d].pc # "idle" =>
        LET tr == disp[d].conn.trace IN
        /\ ReqMethod(d) \notin {"GET", "HEAD"} => PathAttempts(d) = <<>>
        /\ ReqMethod(d) \in {"GET", "HEAD"} =>
              /\ Len(PathAttempts(d)) = 1
              /\ IsPathAttempt(tr[3])
              /\ \A k \in 1..Len(tr) :
                    (IsCall(tr[k]) \/ IsContentType(tr[k])
                        \/ IsIndexAttempt(tr[k])) => k > 3
        /\ PathFileServed(d) =>
              /\ disp[d].pc = "done"
              /\ disp[d].sel = 0 /\ disp[d].route = NoRoute
              /\ disp[d].match = <<>> /\ disp[d].args = <<>>
              /\ Calls(d) = <<>>
              /\ disp[d].conn.headers["Content-Type"] = <<>>
              /\ ~NotFoundAbort(d) /\ ~ServerErrorAbort(d)
              /\ DispatcherWrites(d) = <<>>
              /\ IndexAttempts(d) = <<>>
              /\ disp[d].conn.status = 200
              /\ Len(tr) = 4 /\ tr[4].by = "ServeFile"

\* a GET whose path names a file and which the first route would serve
C24_Witness ==
    \E d \in Disp :
        /\ PathFileServed(d)
        /\ ReqMethod(d) = "GET"
        /\ Len(routes) > 0
        /\ PassesBoth(d, 1)

\* C25: the index fallback is made only after the scan selected no route
\* and only for GET and HEAD; index.html is tried first and index.htm only
\* when index.html was not served; when either is served the dispatch ends
\* with no 404 and no call. With a selected route (whatever its handler
\* does) or another method no index file is looked for, and a request of
\* another method that selects no route goes to the 404.
C25_IndexFallback ==
    \A d \in Disp : disp[d].pc # "idle" =>
        LET ix == IndexAttempts(d) IN
        /\ (disp[d].sel # 0 \/ ReqMethod(d) \notin {"GET", "HEAD"}
                \/ PathFileServed(d)) => ix = <<>>
        /\ (disp[d].sel = 0 /\ ReqMethod(d) \notin {"GET", "HEAD"})
              => NotFoundAbort(d) /\ disp[d].conn.status = 404
        /\ (disp[d].sel = 0 /\ ReqMethod(d) \in {"GET", "HEAD"}
                /\ ~PathFileServed(d)) =>
              /\ Len(ix) \in {1, 2}
              /\ ix[1].name = "index.html"
              /\ Len(ix) = 2 <=> ix[1].n = 0
              /\ Len(ix) = 2 => ix[2].name = "index.htm"
              /\ Last(ix).n = 1 =>
                    /\ disp[d].pc = "done"
                    /\ ~NotFoundAbort(d)
                    /\ Calls(d) = <<>>
                    /\ disp[d].conn.status = 200
                    /\ Last(disp[d].conn.trace).by = "ServeFile"
                    /\ DispatcherWrites(d) = <<>>
              /\ Last(ix).n = 0 => NotFoundAbort(d)

\* index.htm served after index.html was looked for and not found
C25_Witness ==
    \E d \in Disp :
        /\ Len(IndexAttempts(d)) = 2
        /\ IndexAttempts(d)[1].name = "index.html"
        /\ IndexAttempts(d)[1].n = 0
        /\ IndexAttempts(d)[2].name = "index.htm"
        /\ IndexAttempts(d)[2].n = 1
        /\ ~NotFoundAbort(d)
        /\ Len(routes) > 0

(***************************************************************************)
(* C26: when the dispatcher answers 500.                                   *)
(***************************************************************************)
\* safelyCall of dispatch d called the handler and the call faulted: the
\* arguments were refused, or the body panicked
InvocationFaulted(d) ==
    /\ Calls(d) # <<>>
    /\ Calls(d)[1].n = 0 \/ disp[d].beh.end = "panic"

\* C26: a finished dispatch has issued the 500 "Server Error" abort exactly
\* when its handler was invoked, the invocation faulted and RecoverPanic is
\* on; no dispatch issues both the 500 and the 404 abort; the 500 abort is
\* the last thing the dispatch does: no Content-Length is set and the only
\* body the dispatcher writes is "Server Error".
C26_ServerErrorAbort ==
    \A d \in Disp :
        /\ disp[d].pc = "done" =>
              (ServerErrorAbort(d)
                  <=> InvocationFaulted(d) /\ Config.RecoverPanic)
        /\ ~(ServerErrorAbort(d) /\ NotFoundAbort(d))
        /\ ServerErrorAbort(d) =>
              /\ disp[d].pc = "done"
              /\ disp[d].conn.headers["Content-Length"] = <<>>
              /\ LastEvents(d, 2) =
                    << Ev("WriteHeader", "dispatcher", "", <<>>, 500, <<>>),
                       Ev("Write", "dispatcher", "", <<>>, 0,
                          Bytes(ServerErrorText)) >>
              /\ Len(DispatcherWrites(d)) = 1

\* func(n int) string on "/(.*)" was refused its argument and answered 500
C26_Witness ==
    \E d \in Disp :
        /\ disp[d].pc = "done"
        /\ ServerErrorAbort(d)
        /\ disp[d].route.handler = "hIntArg"
        /\ Calls(d)[1].n = 0
        /\ disp[d].conn.status = 500

(***************************************************************************)
(* C27: the default headers.                                               *)
(***************************************************************************)
DefaultContentType == <<"text/html; charset=utf-8">>
DateGMT == <<"Mon, 02 Jan 2006 15:04:05 ", "GMT">>

\* where in the trace of d the dispatcher defaulted Content-Type
ContentTypeAt(d) ==
    {k \in 1..Len(disp[d].conn.trace) :
        /\ IsContentType(disp[d].conn.trace[k])
        /\ disp[d].conn.trace[k].by = "dispatcher"}

\* C27: every dispatch first sets Server, then Date in RFC1123 form ending
\* in GMT and not in UTC, before any file is looked for and before any
\* call; it defaults Content-Type to "text/html; charset=utf-8" next, before
\* the scan, exactly when the first static-file attempt served no file. A
\* handler that is about to be called finds the three headers set, and a
\* value it sets for one of them replaces the default in the response.
C27_DefaultHeaders ==
    \A d \in Disp : disp[d].pc # "idle" =>
        LET tr == disp[d].conn.trace
            first == IF ReqMethod(d) \in {"GET", "HEAD"} THEN 4 ELSE 3
        IN
        /\ tr[1] = Ev("SetHeader", "dispatcher", "Server", <<"web.go">>, 0, <<>>)
        /\ tr[2] = Ev("SetHeader", "dispatcher", "Date", DateGMT, 0, <<>>)
        /\ Last(tr[2].val) = "GMT" /\ Last(tr[2].val) # "UTC"
        /\ \A k \in 1..Len(tr) :
              tr[k].op \in {"tryServingFile", "Call", "WriteHeader", "Write"}
                  => k > 2
        /\ IF PathFileServed(d)
           THEN /\ ContentTypeAt(d) = {}
                /\ disp[d].conn.headers["Content-Type"] = <<>>
           ELSE /\ ContentTypeAt(d) = {first}
                /\ tr[first].val = DefaultContentType
                /\ \A k \in 1..Len(tr) :
                      (IsCall(tr[k]) \/ IsIndexAttempt(tr[k])
                          \/ tr[k].by = "handler") => k > first
        /\ disp[d].pc = "call" =>
              /\ disp[d].conn.headers["Server"] = <<"web.go">>
              /\ disp[d].conn.headers["Date"] = DateGMT
              /\ disp[d].conn.headers["Content-Type"] = DefaultContentType
              /\ ~disp[d].conn.wroteHeaders
        /\ (disp[d].pc = "done" /\ disp[d].beh.pre = "header"
                /\ Calls(d)[1].n = 1) =>
              /\ disp[d].conn.sent["Content-Type"] = <<"text/plain">>
              /\ disp[d].conn.sent["Server"] = <<"web.go">>
              /\ disp[d].conn.sent["Date"] = DateGMT
              /\ disp[d].conn.sent["Content-Length"] = <<"1">>

\* a handler that found the defaults set and answered with its own
\* Content-Type
C27_Witness ==
    \E d \in Disp :
        /\ disp[d].pc = "done"
        /\ disp[d].route.handler = "hSetType"
        /\ disp[d].beh.pre = "header"
        /\ disp[d].conn.sent["Content-Type"] = <<"text/plain">>
        /\ disp[d].conn.sent["Date"] = DateGMT
        /\ disp[d].conn.trace[4].val = DefaultContentType

(***************************************************************************)
(* C28: a payload write that fails.                                        *)
(***************************************************************************)
IsHandlerWrite(e) == e.op = "Write" /\ e.by = "handler"

\* how many bytes the handler of d wrote through its Context
HandlerBytes(d) ==
    LET hw == SelectSeq(disp[d].conn.trace, IsHandlerWrite)
    IN  IF hw = <<>> \/ ReqMethod(d) = "HEAD" THEN 0 ELSE Len(hw[1].data)

\* the dispatcher wrote the payload of d and the transport did not take it:
\* the request is HEAD, or the body lacks the payload
PayloadWriteFailed(d) ==
    /\ disp[d].pc = "done"
    /\ disp[d].ret # <<>>
    /\ DispatcherWrites(d) # <<>>
    /\ \/ ReqMethod(d) = "HEAD"
       \/ Len(disp[d].conn.body)
              < HandlerBytes(d) + Len(Coerce(disp[d].ret[1]))

\* C28: when the write of the payload fails, the failure is logged once,
\* the write was attempted once, the handler was called once and hears
\* nothing of it, no 500 or 404 is written and routeHandler returns
\* normally; Content-Length was set to the length of the whole payload
\* before the write.
C28_WriteFailure ==
    \A d \in Disp : PayloadWriteFailed(d) =>
        LET payload == Coerce(disp[d].ret[1]) IN
        /\ LastEvents(d, 3) =
              << Ev("SetHeader", "dispatcher", "Content-Length",
                    Itoa(Len(payload)), 0, <<>>),
                 Ev("Write", "dispatcher", "", <<>>, 0, payload),
                 Ev("Log", "dispatcher", "Error during write", <<>>, 0, <<>>) >>
        /\ DispatcherAfterCall(d) = LastEvents(d, 3)
        /\ Len(DispatcherWrites(d)) = 1
        /\ Len(Calls(d)) = 1
        /\ ~ServerErrorAbort(d) /\ ~NotFoundAbort(d)
        /\ disp[d].outcome = "written"
        /\ disp[d].conn.headers["Content-Length"] = Itoa(Len(payload))
        /\ Len(disp[d].conn.body) = HandlerBytes(d)

\* GET /a answered "a" by the handler, and the connection refused the byte
C28_Witness ==
    \E d \in Disp :
        /\ PayloadWriteFailed(d)
        /\ ReqMethod(d) = "GET"
        /\ disp[d].ret = <<StrVal(<<"a">>)>>
        /\ disp[d].conn.headers["Content-Length"] = <<"1">>
        /\ disp[d].conn.body = <<>>
        /\ WriteFailed(d)

(***************************************************************************)
(* C29: the outcome of a dispatch is a function of its inputs.             *)
(***************************************************************************)
IsFileAttempt(e) == e.op = "tryServingFile"

\* the files dispatch d looked for and what the file system answered
FileAnswers(d) == SelectSeq(disp[d].conn.trace, IsFileAttempt)

\* an argument list with the identity of the Context left out
ArgShape(args) == [k \in 1..Len(args) |-> [args[k] EXCEPT !.ref = ""]]

\* two dispatches in flight for the same request, with the same answers
\* of the file system
SameRequest(d, e) ==
    /\ disp[d].pc # "idle" /\ disp[e].pc # "idle"
    /\ ReqMethod(d) = ReqMethod(e)
    /\ disp[d].path = disp[e].path
    /\ FileAnswers(d) = FileAnswers(e)

\* both are over, their handlers did the same and their connections took
\* or refused the payload alike
SameRun(d, e) ==
    /\ disp[d].pc = "done" /\ disp[e].pc = "done"
    /\ disp[d].beh = disp[e].beh
    /\ WriteFailed(d) = WriteFailed(e)

IsHeaderBlock(ch) == ch.kind = "headers"
HeaderBlocks(d) == SelectSeq(disp[d].conn.wire, IsHeaderBlock)

\* the status line the first call on the connection asks for: WriteHeader
\* its argument, Write 200, finishRequest none
FirstStatus(d) ==
    LET e == disp[d].conn.trace[1] IN
    IF e.op = "WriteHeader" THEN e.n
    ELSE IF e.op = "Write" THEN 200
    ELSE 0

\* C30: whatever WriteHeader and Write calls are made on an SCGI connection
\* before its finishRequest, the peer is sent at most one header block, and
\* it comes before every body byte; its status is that of the first call
\* (the first WriteHeader's, or 200 when a Write came first), and later
\* WriteHeader calls change nothing; finishRequest sends the headers
\* exactly when none were sent, so a finished connection has sent one
\* block.
C30_HeadersOnce ==
    \A d \in Disp :
        LET c == disp[d].conn IN
        /\ Len(HeaderBlocks(d)) <= 1
        /\ c.wroteHeaders <=> Len(HeaderBlocks(d)) = 1
        /\ c.wire # <<>> => IsHeaderBlock(c.wire[1])
        /\ c.trace # <<>> =>
              /\ Len(HeaderBlocks(d)) = 1
              /\ c.wire[1].status = FirstStatus(d)
              /\ c.trace[1].op # "finishRequest" => c.status = FirstStatus(d)
        /\ disp[d].pc = "closed" =>
              /\ Len(HeaderBlocks(d)) = 1
              /\ Last(c.trace).op = "finishRequest"
              /\ Len(c.trace) = 1 <=> c.wire = <<Chunk("headers", 0, <<>>)>>

\* a Write of "x", then WriteHeader(404), then finishRequest: the peer got
\* the headers with status 200 and then "x"
C30_Witness ==
    \E d \in Disp :
        /\ disp[d].pc = "closed"
        /\ Len(disp[d].conn.trace) = 3
        /\ disp[d].conn.trace[1].op = "Write"
        /\ disp[d].conn.trace[2].op = "WriteHeader"
        /\ disp[d].conn.trace[2].n = 404
        /\ disp[d].conn.wire
              = <<Chunk("headers", 200, <<>>), Chunk("body", 0, <<120>>)>>

(***************************************************************************)
(* C31: HEAD on an SCGI connection.                                        *)
(***************************************************************************)
IsBodyChunk(ch) == ch.kind = "body"
BodyChunks(d) == SelectSeq(disp[d].conn.wire, IsBodyChunk)

\* what a Write of the data on the connection of d would do now, whether
\* the connection would take the bytes or not
WriteNow(d, data, fdOk) == ConnWrite(disp[d].conn, "handler", data, fdOk)

\* a HEAD request was dispatched to a route whose handler ran and returned a
\* text
HeadReturnedText(d) ==
    /\ disp[d].pc = "done"
    /\ ReqMethod(d) = "HEAD"
    /\ disp[d].route.method = "GET"
    /\ disp[d].err = ""
    /\ disp[d].ret # <<>>
    /\ disp[d].ret[1].kind = "string"

\* C31: on a connection serving a HEAD request no body byte is sent: a
\* Write in any state of it fails, adds no body and sends at most the header
\* block, once. So a HEAD request that a GET route answers with a text ends
\* with the header block alone, Content-Length the byte length of the text,
\* one logged write failure, and no 500.
C31_HeadNoBody ==
    \A d \in Disp : (disp[d].pc # "idle" /\ ReqMethod(d) = "HEAD") =>
        /\ disp[d].conn.body = <<>>
        /\ BodyChunks(d) = <<>>
        /\ \A data \in {<<>>, <<120>>}, fdOk \in BOOLEAN :
              LET w == WriteNow(d, data, fdOk) IN
              /\ w.err
              /\ w.c.body = <<>>
              /\ w.c.wroteHeaders
              /\ w.c.wire = IF disp[d].conn.wroteHeaders
                            THEN disp[d].conn.wire
                            ELSE <<Chunk("headers", 200, <<>>)>>
        /\ HeadReturnedText(d) =>
              /\ Len(disp[d].conn.wire) = 1
              /\ IsHeaderBlock(disp[d].conn.wire[1])
              /\ disp[d].conn.headers["Content-Length"]
                    = Itoa(Len(Bytes(disp[d].ret[1].s)))
              /\ HandlerEvents(d) = <<>> =>
                    /\ disp[d].conn.sent["Content-Length"]
                          = Itoa(Len(Bytes(disp[d].ret[1].s)))
                    /\ disp[d].conn.status = 200
              /\ WriteFailed(d)
              /\ Last(disp[d].conn.trace)
                    = Ev("Log", "dispatcher", "Error during write", <<>>, 0, <<>>)
              /\ ~ServerErrorAbort(d) /\ ~NotFoundAbort(d)
              /\ disp[d].outcome = "written"

\* HEAD /a answered "a" by the handler of GET "/(.*)": headers with status
\* 200 and Content-Length 1, no body
C31_Witness ==
    \E d \in Disp :
        /\ HeadReturnedText(d)
        /\ disp[d].route.r = "/(.*)"
        /\ disp[d].ret = <<StrVal(<<"a">>)>>
        /\ disp[d].conn.sent["Content-Length"] = <<"1">>
        /\ disp[d].conn.wire = <<Chunk("headers", 200, <<>>)>>
        /\ WriteFailed(d)

(***************************************************************************)
(* C32: a request that cannot be read from an SCGI connection.             *)
(***************************************************************************)
\* the goroutine of connection d has handled a request that is not a
\* well-formed SCGI request
HandledMalformed(d) ==
    /\ disp[d].outcome # ""
    /\ disp[d].input # GoodRequest

IsScgiErrorLog(e) ==
    e.op = "Log" /\ e.name \in {"SCGI error", "Error during SCGI read"}
IsDispatch(e) == e.op = "routeHandler"
IsClose(e) == e.op = "Close"

ScgiTrace(d, Test(_)) == SelectSeq(disp[d].conn.trace, Test)

\* C32: when the request of a connection cannot be read, the error is
\* logged, routeHandler is not run for the connection and the connection is
\* closed; the server goes on and no other connection is affected.
C32_MalformedContained ==
    \A d \in DOMAIN disp : HandledMalformed(d) =>
        /\ ScgiTrace(d, IsScgiErrorLog) # <<>>
        /\ ScgiTrace(d, IsDispatch) = <<>>
        /\ ScgiTrace(d, IsClose) # <<>>
        /\ disp[d].pc = "closed"
        /\ \A e \in DOMAIN disp : disp[e].pc # "exited"

\* C32, as the code has it: a request that cannot be read ends the process.
\* Either readScgiRequest itself panics (nothing was sent, or the length is
\* negative), or it returns an error, which is logged, and routeHandler is
\* then run with no request and panics; the connection is not closed by
\* handleScgiRequest, and every other connection ends with the process. A
\* well-formed request is dispatched, finished and closed.
C32_MalformedEndsProcess ==
    \A d \in DOMAIN disp :
        /\ HandledMalformed(d) =>
              /\ disp[d].outcome = "panic"
              /\ \A e \in DOMAIN disp : disp[e].pc = "exited"
              /\ ScgiTrace(d, IsClose) = <<>>
              /\ IF disp[d].input \in {<<>>, <<"-", "1", ":", ",">>}
                 THEN ScgiTrace(d, IsDispatch) = <<>>
                 ELSE /\ Last(disp[d].conn.trace)
                            = Ev("routeHandler", "scgi", "", <<>>, 0, <<>>)
                      /\ disp[d].conn.trace[Len(disp[d].conn.trace) - 1]
                            = Ev("Log", "scgi", "SCGI error", <<>>, 0, <<>>)
        /\ (disp[d].outcome # "" /\ disp[d].input = GoodRequest) =>
              /\ disp[d].outcome = "served"
              /\ disp[d].pc \in {"closed", "exited"}
              /\ disp[d].conn.trace
                    = << Ev("routeHandler", "scgi", "", <<>>, 1, <<>>),
                         Ev("finishRequest", "scgi", "", <<>>, 0, <<>>),
                         Ev("Close", "scgi", "", <<>>, 0, <<>>) >>

\* a request without its comma on the second connection ended the process
\* while the first connection was still being read
C32_Witness ==
    /\ DOMAIN disp = Disp2
    /\ disp["d2"].input = <<"2", ":", "M", "P", ";">>
    /\ disp["d2"].outcome = "panic"
    /\ disp["d2"].err = "SCGI protocol error: missing comma"
    /\ disp["d1"].input = GoodRequest
    /\ disp["d1"].pc = "exited"
    /\ disp["d1"].outcome = ""

(***************************************************************************)
(* C33: GetSecureCookie and cookies that are not valid.                    *)
(***************************************************************************)
\* GetSecureCookie was called for the request of d and the request has a
\* cookie of the name
AskedCookie(d) ==
    /\ disp[d].pc = "done"
    /\ disp[d].outcome \in {"true", "false", "panic"}
    /\ FirstNamed(disp[d].input, CookieName) # 0

\* the value of the cookie of the name that GetSecureCookie looks at
AskedValue(d) == disp[d].input[FirstNamed(disp[d].input, CookieName)].value

\* the value is one SetSecureCookie made with the configured secret, for
\* some text, not more than MaxCookieDays ago
ValidlySigned(value) ==
    \E t \in (Today - MaxCookieDays)..Today :
        value = SetSecureCookie(Config.CookieSecret, "v", t)

\* how many '|' the value holds
Bars(value) == Cardinality({k \in 1..Len(value) : value[k] = Bar})

\* C33: for a cookie of the name that is not a validly signed, unexpired
\* value (wrong signature, older than 31 days, or without the three parts
\* value|timestamp|signature) GetSecureCookie returns ("", false) and does
\* not fault; it returns (value, true) only for a value whose signature
\* verifies with the configured secret.
C33_InvalidCookieRefused ==
    \A d \in Disp : AskedCookie(d) =>
        /\ disp[d].outcome # "panic"
        /\ ~ValidlySigned(AskedValue(d)) =>
              /\ disp[d].outcome = "false"
              /\ disp[d].ret = <<StrVal(<<>>)>>
        /\ disp[d].outcome = "true" => ValidlySigned(AskedValue(d))

\* C33, as the code has it: a value with fewer than two '|' makes
\* GetSecureCookie panic on parts[1] or parts[2]; a value with the three
\* parts is answered ("", false) unless it is validly signed and unexpired,
\* and then with the text that was signed.
C33_ShortCookiePanics ==
    \A d \in Disp : AskedCookie(d) =>
        IF Bars(AskedValue(d)) < 2
        THEN disp[d].outcome = "panic"
        ELSE /\ disp[d].outcome # "panic"
             /\ ~ValidlySigned(AskedValue(d)) =>
                   /\ disp[d].outcome = "false"
                   /\ disp[d].ret = <<StrVal(<<>>)>>
             /\ ValidlySigned(AskedValue(d)) =>
                   /\ disp[d].outcome = "true"
                   /\ disp[d].ret = <<StrVal(<<"v">>)>>

\* a cookie "s" whose value has no '|' made GetSecureCookie panic
C33_Witness ==
    \E d \in Disp :
        /\ AskedCookie(d)
        /\ AskedValue(d) = <<B64("v")>>
        /\ disp[d].outcome = "panic"

=============================================================================
